---- MODULE Spec2Model ----
(***************************************************************************)
(* Distributed Schelling segregation model (lecture_03/schelling.py).      *)
(*                                                                         *)
(* One process per MPI rank.  Every rank owns a tile of the global grid    *)
(* (repast4py SharedGrid), creates its share of the agents on its tile,    *)
(* and then runs the tick loop of the schedule runner:                     *)
(*   agent steps -> context.synchronize -> statistics -> allreduce ->      *)
(*   stop decision.                                                        *)
(* The two collectives are modelled by what they transfer: a rank posts    *)
(* its contribution and can only complete the collective once every rank   *)
(* has posted its contribution for the same tick.                          *)
(***************************************************************************)
EXTENDS Integers, Sequences, FiniteSets, TLC

VARIABLES
    params,       \* the parameter dictionary of the run (same on every rank)
    pc,           \* pc[r]: where rank r is in Model.__init__ / runner.execute
    idx,          \* idx[r]: number of iterations done of the loop rank r is in
    tick,         \* tick[r]: runner.schedule.tick on rank r
    go,           \* go[r]: the runner's go flag on rank r
    context,      \* context[r]: the local agents of rank r, in insertion order
    ghosts,       \* ghosts[r]: grid locations of the ghost agents on rank r
    agent_cache,  \* agent_cache[r]: the module-level restore cache of rank r
    sent,         \* sent[r]: what rank r handed to the last synchronize
    reduced,      \* reduced[r]: what rank r handed to the last allreduce
    summary,      \* summary[r]: the Summary dataclass of rank r
    tick_start,   \* tick_start[r]: what rank r's grid showed when its tick began
    draws,        \* draws[r]: draws made by the move call under way on rank r
    restored,     \* restored[r]: the last call of restore_agent followed on r
    call,         \* the last call followed of a function that has no state
    grid_matrix,  \* the grid of cell values given to calculate_morans_i
    agent_logger, \* agent_logger[r]: the rows rank r has logged and not yet written
    model         \* the mesa Model object of a single-process program

vars == <<params, pc, idx, tick, go, context, ghosts, agent_cache, sent,
          reduced, summary, tick_start, draws, restored, call, grid_matrix,
          agent_logger, model>>

----------------------------------------------------------------------------
(* Bounds of the model and the inputs the runs are drawn from.             *)

MaxTick == 2

\* world.width, world.height: a row of 3 cells (two ranks get tiles of 1 and
\* 2 cells) and a row of 4 cells (two tiles of 2 cells)
Widths == {3, 4}
Heights == {1}
WorldSizes == {1, 2}
\* empty_ratio and always_happy_ratio in quarters, so that the float
\* arithmetic of the source is exact on them
EmptyRatios == {0, 1, 2, 3, 4}
AlwaysHappyRatios == {2}
\* threshold as a fraction <<numerator, denominator>>
Thresholds == {<<1, 2>>, <<1, 1>>}
\* "moran_file" in params: the runs followed name a file for Moran's I
MoranFiles == {TRUE}

Neighborhoods == {"8"}

\* range(100) of SchellingAgent.move
Attempts == 100

NoPt == <<-1, -1>>

----------------------------------------------------------------------------
(* get_neighborhood_offsets: the (mo, no) arrays as a sequence of pairs.   *)

Abs(n) == IF n < 0 THEN -n ELSE n

\* faulty variant of KeepOffset: the origin is kept by the Moore variants
KeepOffsetWithOrigin(name, x, y) ==
    IF name = "12" THEN Abs(x) + Abs(y) > 0 /\ Abs(x) + Abs(y) <= 2
    ELSE TRUE

\* the test the loop body applies to (x, y): Manhattan distance in 1..2 for
\* "12", not the origin for the Moore variants
KeepOffset(name, x, y) ==
    IF name = "12" THEN Abs(x) + Abs(y) > 0 /\ Abs(x) + Abs(y) <= 2
    ELSE ~(x = 0 /\ y = 0)

RECURSIVE RowScan(_, _, _, _)
\* the inner loop "for y in range(-r, r+1)" from y on, appending the
\* offsets the loop body keeps
RowScan(name, r, x, y) ==
    IF y > r THEN <<>>
    ELSE (IF KeepOffset(name, x, y) THEN <<(<<x, y>>)>> ELSE <<>>)
         \o RowScan(name, r, x, y + 1)

RECURSIVE SquareScan(_, _, _)
\* the outer loop "for x in range(-r, r+1)" from x on
SquareScan(name, r, x) ==
    IF x > r THEN <<>>
    ELSE RowScan(name, r, x, -r) \o SquareScan(name, r, x + 1)

get_neighborhood_offsets(name) ==
    IF name = "4" THEN << <<0, 1>>, <<0, -1>>, <<1, 0>>, <<-1, 0>> >>
    ELSE IF name = "12" THEN SquareScan(name, 2, -2)
    ELSE IF name = "24" THEN SquareScan(name, 2, -2)
    ELSE IF name = "48" THEN SquareScan(name, 3, -3)
    ELSE IF name = "80" THEN SquareScan(name, 4, -4)
    ELSE << <<-1, 1>>, <<0, 1>>, <<1, 1>>, <<-1, 0>>,
            <<1, 0>>, <<-1, -1>>, <<0, -1>>, <<1, -1>> >>

Range(s) == {s[i] : i \in DOMAIN s}

Max(S) == CHOOSE m \in S : \A n \in S : n <= m

\* max(np.max(np.abs(mo)), np.max(np.abs(no))): the buffer size of the grid
max_dist(name) ==
    Max({Abs(o[1]) : o \in Range(get_neighborhood_offsets(name))}
        \cup {Abs(o[2]) : o \in Range(get_neighborhood_offsets(name))})

\* faulty variant of Find: coordinates beyond the border wrap around
FindWrapped(x, y) ==
    LET offs == get_neighborhood_offsets(params.neighborhood)
    IN  [i \in DOMAIN offs |-> <<(offs[i][1] + x) % params.world_width,
                                  (offs[i][2] + y) % params.world_height>>]

\* GridNghFinder.find: the offsets applied to (x, y), filtered to the grid
Find(x, y) ==
    LET offs == get_neighborhood_offsets(params.neighborhood)
        xs   == SelectSeq([i \in DOMAIN offs |-> <<offs[i][1] + x, offs[i][2] + y>>],
                          LAMBDA p : p[1] >= 0 /\ p[1] < params.world_width)
    IN  SelectSeq(xs, LAMBDA p : p[2] >= 0 /\ p[2] < params.world_height)

----------------------------------------------------------------------------
(* The shared grid: tiles, occupancy, moves.                               *)

Ranks == 0 .. (params.world_size - 1)

\* The tile of a rank: the x extent is split over the ranks, the remainder
\* of the division goes to the last rank; y is not split.
LocalXMin(r) == (params.world_width \div params.world_size) * r
LocalXMax(r) ==
    LocalXMin(r) + (params.world_width \div params.world_size)
      + (IF r = params.world_size - 1
         THEN params.world_width % params.world_size ELSE 0)

\* the points grid.get_random_local_pt can return on rank r
LocalPts(r) ==
    {<<x, y>> : x \in LocalXMin(r) .. (LocalXMax(r) - 1),
                y \in 0 .. (params.world_height - 1)}

\* the buffer zone of rank r: within buffer_size of its tile, outside it
BufferPts(r) ==
    LET b == max_dist(params.neighborhood)
    IN  {<<x, y>> : x \in (LocalXMin(r) - b) .. (LocalXMax(r) - 1 + b),
                    y \in 0 .. (params.world_height - 1)} \ LocalPts(r)

\* grid.get_agents(pt) on a rank with local agents ctx and ghost locations gh:
\* the grid's location map holds the local agents and the ghosts alike
\* faulty variant of GetAgents: the local agents are not reported
GetAgentsGhostsOnly(ctx, gh, cache, pt) ==
    {[uid |-> u, agent_type |-> cache[u].agent_type, ghost |-> TRUE]
        : u \in {v \in DOMAIN gh : gh[v] = pt}}

GetAgents(ctx, gh, cache, pt) ==
    {[uid |-> ctx[k].uid, agent_type |-> ctx[k].agent_type, ghost |-> FALSE]
        : k \in {j \in DOMAIN ctx : ctx[j].pt = pt}}
    \cup
    {[uid |-> u, agent_type |-> cache[u].agent_type, ghost |-> TRUE]
        : u \in {v \in DOMAIN gh : gh[v] = pt}}

\* grid.move(agent, dest) for the k-th local agent; the grid is single
\* occupancy, so a move onto an occupied cell is refused
GridMove(ctx, gh, cache, k, dest) ==
    IF ctx[k].pt = dest THEN ctx
    ELSE IF GetAgents(ctx, gh, cache, dest) = {} THEN [ctx EXCEPT ![k].pt = dest]
    ELSE ctx

----------------------------------------------------------------------------
(* Model.__init__                                                          *)

total_agents ==
    (params.world_width * params.world_height * (4 - params.empty_ratio)) \div 4

\* faulty variant of my_agent_count: the surplus goes to the highest ranks
my_agent_count_from_top(r) ==
    (total_agents \div params.world_size)
      + (IF r >= params.world_size - (total_agents % params.world_size)
         THEN 1 ELSE 0)

\* faulty variant of my_agent_count: the remainder is not shared out
my_agent_count_even(r) == total_agents \div params.world_size

my_agent_count(r) ==
    (total_agents \div params.world_size)
      + (IF r < total_agents % params.world_size THEN 1 ELSE 0)

\* faulty variant of NewUid: the creating rank is left out of the uid
NewUidNoRank(a_id, r) == <<a_id, 0, 0>>

\* core.Agent uid of SchellingAgent(a_id, rank, ...): (id, TYPE, rank)
NewUid(a_id, r) == <<a_id, 0, r>>

\* SchellingAgent.__init__, not yet on the grid
SchellingAgent(a_id, r, a_type, threshold, always_happy) ==
    [uid |-> NewUid(a_id, r), agent_type |-> a_type, threshold |-> threshold,
     happy |-> FALSE, always_happy |-> always_happy, pt |-> NoPt]

\* the outcomes of "rng.random() < always_happy_ratio"
AlwaysHappyDraws ==
    IF params.always_happy_ratio = 0 THEN {FALSE}
    ELSE IF params.always_happy_ratio >= 4 THEN {TRUE}
    ELSE BOOLEAN

\* the state of the ranks when Model.__init__ reaches the creation loop
Constructed ==
    /\ pc = [r \in Ranks |-> "init"]
    /\ idx = [r \in Ranks |-> 0]
    /\ tick = [r \in Ranks |-> 0]
    /\ go = [r \in Ranks |-> TRUE]
    /\ context = [r \in Ranks |-> <<>>]
    /\ ghosts = [r \in Ranks |-> <<>>]
    /\ agent_cache = [r \in Ranks |-> <<>>]
    /\ sent = [r \in Ranks |-> [tick |-> 0, agents |-> <<>>, moved |-> <<>>]]
    /\ reduced = [r \in Ranks |-> [tick |-> 0, value |-> 0]]
    /\ summary = [r \in Ranks |-> [total_agents |-> 0, total_happy |-> 0,
                                   percent_happy |-> 0]]
    /\ tick_start = [r \in Ranks |-> {}]
    /\ draws = [r \in Ranks |-> 0]
    /\ restored = [r \in Ranks |-> <<>>]
    /\ call = <<>>
    /\ agent_logger = [r \in Ranks |-> <<>>]
    /\ model = <<>>

Init ==
    /\ params \in [world_width : Widths, world_height : Heights,
                   world_size : WorldSizes, empty_ratio : EmptyRatios,
                   threshold : Thresholds, always_happy_ratio : AlwaysHappyRatios,
                   neighborhood : Neighborhoods, stop_at : {MaxTick},
                   moran_file : MoranFiles]
    /\ Constructed
    /\ grid_matrix = <<>>

\* one iteration of "for i in range(my_agent_count)": the agent is created,
\* added to the context, and placed by the "while True" loop, which leaves
\* only through a draw of a vacant local point
CreateAgent(r) ==
    /\ pc[r] = "init"
    /\ idx[r] < my_agent_count(r)
    /\ \E a_type \in {0, 1}, is_always_happy \in AlwaysHappyDraws, pt \in LocalPts(r) :
          LET agent == SchellingAgent(idx[r], r, a_type, params.threshold,
                                      is_always_happy)
              added == Append(context[r], agent)
          IN  /\ GetAgents(added, ghosts[r], agent_cache[r], pt) = {}
              /\ context' = [context EXCEPT ![r] =
                    GridMove(added, ghosts[r], agent_cache[r], Len(added), pt)]
    /\ idx' = [idx EXCEPT ![r] = idx[r] + 1]
    /\ UNCHANGED <<model, agent_logger, grid_matrix, call, restored, draws, params, pc, tick, go, ghosts, agent_cache, sent, reduced,
                   summary, tick_start>>

\* the rest of Model.__init__ and Model.start: the runner is entered
FinishInit(r) ==
    /\ pc[r] = "init"
    /\ idx[r] = my_agent_count(r)
    /\ pc' = [pc EXCEPT ![r] = "loop"]
    /\ idx' = [idx EXCEPT ![r] = 0]
    /\ UNCHANGED <<model, agent_logger, grid_matrix, call, restored, draws, params, tick, go, context, ghosts, agent_cache, sent, reduced,
                   summary, tick_start>>

----------------------------------------------------------------------------
(* SchellingAgent.step and SchellingAgent.move                             *)

RECURSIVE CountNeighbors(_, _, _, _, _, _)
\* the loop over nghs of step: the agents found at the neighbour coordinates
\* from position i on, other than the agent itself; with similar_only, those
\* of the agent's own type
CountNeighbors(r, ctx, self, nghs, i, similar_only) ==
    IF i > Len(nghs) THEN 0
    ELSE Cardinality({n \in GetAgents(ctx, ghosts[r], agent_cache[r], nghs[i]) :
                        /\ n.uid # self.uid
                        /\ (similar_only => n.agent_type = self.agent_type)})
         + CountNeighbors(r, ctx, self, nghs, i + 1, similar_only)

\* faulty variant of Satisfied: an agent without neighbours is unhappy
SatisfiedInCompany(similar, total_neighbors, threshold) ==
    IF total_neighbors > 0
    THEN similar * threshold[2] >= threshold[1] * total_neighbors
    ELSE FALSE

\* faulty variant of Satisfied: the threshold must be exceeded
SatisfiedStrict(similar, total_neighbors, threshold) ==
    IF total_neighbors > 0
    THEN similar * threshold[2] > threshold[1] * total_neighbors
    ELSE TRUE

\* the happy flag step computes: similar / total_neighbors >= threshold,
\* True without neighbours
Satisfied(similar, total_neighbors, threshold) ==
    IF total_neighbors > 0
    THEN similar * threshold[2] >= threshold[1] * total_neighbors
    ELSE TRUE

\* faulty variant of MoveDests: the destination is drawn from the whole grid
MoveDestsAnywhere(r, ctx, n) ==
    LET pts == (0 .. params.world_width - 1) \X (0 .. params.world_height - 1)
        vacant == {d \in pts :
                     GetAgents(ctx, ghosts[r], agent_cache[r], d) = {}}
    IN  IF n = 0 THEN {NoPt}
        ELSE vacant \cup (IF vacant # pts THEN {NoPt} ELSE {})

\* faulty variant of MoveDests: the points are drawn from the tile and its
\* buffer zone
MoveDestsWithBuffer(r, ctx, n) ==
    LET pts == LocalPts(r) \cup
               {d \in BufferPts(r) : /\ d[1] >= 0
                                      /\ d[1] < params.world_width}
        vacant == {d \in pts :
                     GetAgents(ctx, ghosts[r], agent_cache[r], d) = {}}
    IN  IF n = 0 THEN {NoPt}
        ELSE vacant \cup (IF vacant # pts THEN {NoPt} ELSE {})

\* the loop "for _ in range(n)" of move: the destinations it can end on,
\* NoPt when the range is exhausted.  A draw of an occupied point changes
\* nothing, so the loop ends on the first vacant point drawn, and it is
\* exhausted when all n draws hit occupied points
MoveDests(r, ctx, n) ==
    LET vacant == {d \in LocalPts(r) :
                     GetAgents(ctx, ghosts[r], agent_cache[r], d) = {}}
    IN  IF n = 0 THEN {NoPt}
        ELSE vacant \cup (IF vacant # LocalPts(r) THEN {NoPt} ELSE {})

\* SchellingAgent.move for the k-th local agent: the contexts it can leave
Move(r, ctx, k) ==
    {IF d = NoPt THEN ctx ELSE GridMove(ctx, ghosts[r], agent_cache[r], k, d)
        : d \in MoveDests(r, ctx, Attempts)}

\* faulty variant of Step: always_happy is not consulted
StepNoImmunity(r, ctx, k) ==
    LET self == ctx[k]
        nghs == Find(self.pt[1], self.pt[2])
        similar == CountNeighbors(r, ctx, self, nghs, 1, TRUE)
        total_neighbors == CountNeighbors(r, ctx, self, nghs, 1, FALSE)
        happy == Satisfied(similar, total_neighbors, self.threshold)
        decided == [ctx EXCEPT ![k].happy = happy]
    IN  IF self.pt = NoPt THEN {ctx}
        ELSE IF happy THEN {decided}
        ELSE Move(r, decided, k)

\* SchellingAgent.step for the k-th local agent: the contexts it can leave
Step(r, ctx, k) ==
    LET self == ctx[k]
        nghs == Find(self.pt[1], self.pt[2])
        similar == CountNeighbors(r, ctx, self, nghs, 1, TRUE)
        total_neighbors == CountNeighbors(r, ctx, self, nghs, 1, FALSE)
        happy == Satisfied(similar, total_neighbors, self.threshold)
        decided == [ctx EXCEPT ![k].happy = happy]
    IN  IF self.pt = NoPt THEN {ctx}
        ELSE IF self.always_happy THEN {[ctx EXCEPT ![k].happy = TRUE]}
        ELSE IF happy THEN {decided}
        ELSE Move(r, decided, k)

----------------------------------------------------------------------------
(* Global Moran's I of a grid of cell values: calculate_morans_i of        *)
(* scripts/final_stats.py (nested loops) and of scripts/analysis_utils.py  *)
(* (convolution).  The arithmetic of the scripts is followed in exact      *)
(* rationals: with N the number of non-empty cells and S the sum of their  *)
(* values, mean_val is S / N, a deviation z is carried as the integer      *)
(* N * z, and num and denom as the integers N * N * num and N * N * denom. *)
(* Rounding of the floating-point operations is not followed.              *)

MaxCells == 8

\* np.nan as a cell of the grid
NaN == <<>>

\* what calc_single puts into a cell: nan, or 1 for type 1 and -1 otherwise
CellValues == {NaN, <<-1>>, <<1>>}

\* the grids of at most MaxCells cells
Grids ==
    UNION {[1 .. sh[1] -> [1 .. sh[2] -> CellValues]] :
             sh \in {x \in (1 .. MaxCells) \X (1 .. MaxCells) :
                        x[1] * x[2] <= MaxCells}}

isnan(v) == v = NaN

RECURSIVE SumFrom(_, _, _)
\* s[k] + ... + s[n]
SumFrom(s, k, n) == IF k > n THEN 0 ELSE s[k] + SumFrom(s, k + 1, n)

\* np.sum of a flat array
np_sum(s) == SumFrom(s, 1, Len(s))

\* the entries of a matrix in row-major order
Flat(m) ==
    [i \in 1 .. (Len(m) * Len(m[1])) |->
        m[((i - 1) \div Len(m[1])) + 1][((i - 1) % Len(m[1])) + 1]]

\* N * (v - mean_val), with mean_val = S / N
Deviation(v, N, S) == (N * v) - S

\* the test "W == 0" before the division
WeightIsZeroNever(W) == FALSE

WeightIsZero(W) == W = 0

\* faulty variant of MoranValue: the weight is left out
MoranValueUnweighted(N, W, num, denom) == <<N * num, denom>>

\* (N / W) * (num / denom), as the fraction <<numerator, denominator>>
MoranValue(N, W, num, denom) == <<N * num, W * denom>>

np_nan == [nan |-> TRUE]

Number(N, W, num, denom) ==
    [nan |-> FALSE, N |-> N, W |-> W, num |-> num, denom |-> denom,
     value |-> MoranValue(N, W, num, denom)]

\* faulty variant of neighbors_offsets: the diagonal neighbours are left out
neighbors_offsets_4 == << <<-1, 0>>, <<0, -1>>, <<0, 1>>, <<1, 0>> >>

neighbors_offsets ==
    << <<-1, -1>>, <<-1, 0>>, <<-1, 1>>, <<0, -1>>,
       <<0, 1>>, <<1, -1>>, <<1, 0>>, <<1, 1>> >>

\* the body of "for dr, dc in neighbors_offsets" for the k-th offset at the
\* cell (r, c): what it adds to num and to W
NeighborTerm(g, r, c, k, N, S) ==
    LET nr == r + neighbors_offsets[k][1]
        nc == c + neighbors_offsets[k][2]
    IN  IF /\ 1 <= nr /\ nr <= Len(g) /\ 1 <= nc /\ nc <= Len(g[1])
           /\ ~isnan(g[nr][nc])
        THEN <<Deviation(g[r][c][1], N, S) * Deviation(g[nr][nc][1], N, S), 1>>
        ELSE <<0, 0>>

\* the body of "for c in range(cols)" at the cell (r, c)
CellTerm(g, r, c, N, S) ==
    IF isnan(g[r][c]) THEN <<0, 0>>
    ELSE LET t == [k \in DOMAIN neighbors_offsets |->
                      NeighborTerm(g, r, c, k, N, S)]
         IN  <<np_sum([k \in DOMAIN t |-> t[k][1]]),
               np_sum([k \in DOMAIN t |-> t[k][2]])>>

\* calculate_morans_i of final_stats.py
final_stats_calculate_morans_i(g) ==
    LET values == SelectSeq(Flat(g), LAMBDA v : ~isnan(v))
        N      == Len(values)
        S      == np_sum([i \in DOMAIN values |-> values[i][1]])
        denom  == np_sum([i \in DOMAIN values |->
                            Deviation(values[i][1], N, S)
                              * Deviation(values[i][1], N, S)])
        cells  == [i \in 1 .. (Len(g) * Len(g[1])) |->
                     CellTerm(g, ((i - 1) \div Len(g[1])) + 1,
                              ((i - 1) % Len(g[1])) + 1, N, S)]
        num    == np_sum([i \in DOMAIN cells |-> cells[i][1]])
        W      == np_sum([i \in DOMAIN cells |-> cells[i][2]])
    IN  IF Len(values) < 2 THEN np_nan
        ELSE IF denom = 0 THEN np_nan
        ELSE IF WeightIsZero(W) THEN np_nan
        ELSE Number(N, W, num, denom)

\* faulty variant of kernel: the centre cell counts as its own neighbour
kernel_with_centre == << <<1, 1, 1>>, <<1, 1, 1>>, <<1, 1, 1>> >>

kernel == << <<1, 1, 1>>, <<1, 0, 1>>, <<1, 1, 1>> >>

\* scipy.signal.convolve2d(in1, in2, mode="same", boundary="fill",
\* fillvalue=0) with a 3 x 3 in2
convolve2d(in1, in2) ==
    [r \in DOMAIN in1 |-> [c \in DOMAIN in1[1] |->
        np_sum([i \in 1 .. 9 |->
            LET a  == ((i - 1) \div 3) + 1
                b  == ((i - 1) % 3) + 1
                rr == r + 2 - a
                cc == c + 2 - b
            IN  IF 1 <= rr /\ rr <= Len(in1) /\ 1 <= cc /\ cc <= Len(in1[1])
                THEN in2[a][b] * in1[rr][cc]
                ELSE 0])]]

\* np.sum(x[mask]) for matrices x and mask of the same shape
SumMasked(x, mask) ==
    np_sum([i \in 1 .. (Len(x) * Len(x[1])) |->
              IF mask[((i - 1) \div Len(x[1])) + 1][((i - 1) % Len(x[1])) + 1] = 1
              THEN x[((i - 1) \div Len(x[1])) + 1][((i - 1) % Len(x[1])) + 1]
              ELSE 0])

\* calculate_morans_i of analysis_utils.py
analysis_utils_calculate_morans_i(g) ==
    LET mask   == [r \in DOMAIN g |-> [c \in DOMAIN g[1] |->
                      IF isnan(g[r][c]) THEN 0 ELSE 1]]
        values == [r \in DOMAIN g |-> [c \in DOMAIN g[1] |->
                      IF mask[r][c] = 1 THEN g[r][c][1] ELSE 0]]
        N      == np_sum(Flat(mask))
        S      == np_sum(Flat(values))
        z      == [r \in DOMAIN g |-> [c \in DOMAIN g[1] |->
                      IF mask[r][c] = 1 THEN Deviation(g[r][c][1], N, S)
                      ELSE 0]]
        denom  == SumMasked([r \in DOMAIN g |-> [c \in DOMAIN g[1] |->
                                z[r][c] * z[r][c]]], mask)
        valid_neighbor_counts == convolve2d(mask, kernel)
        W      == SumMasked(valid_neighbor_counts, mask)
        neighbor_z_sum == convolve2d(z, kernel)
        num    == SumMasked([r \in DOMAIN g |-> [c \in DOMAIN g[1] |->
                                z[r][c] * neighbor_z_sum[r][c]]], mask)
    IN  IF N < 2 THEN np_nan
        ELSE IF denom = 0 THEN np_nan
        ELSE IF WeightIsZero(W) THEN np_nan
        ELSE Number(N, W, num, denom)

----------------------------------------------------------------------------
(* The schedule runner and Model.step                                      *)

\* what the grid of rank r shows: every located local agent and ghost
Visible(r) ==
    {[uid |-> context[r][k].uid, agent_type |-> context[r][k].agent_type,
      always_happy |-> context[r][k].always_happy,
      pt |-> context[r][k].pt, ghost |-> FALSE]
        : k \in {j \in DOMAIN context[r] : context[r][j].pt # NoPt}}
    \cup
    {[uid |-> u, agent_type |-> agent_cache[r][u].agent_type,
      always_happy |-> agent_cache[r][u].always_happy,
      pt |-> ghosts[r][u], ghost |-> TRUE] : u \in DOMAIN ghosts[r]}

\* faulty variant of KeepsRunning: the go flag is not consulted
KeepsRunningAlways(r) == TRUE

\* "while self.go" of the runner's execute
KeepsRunning(r) == go[r]

\* the runner pops the next tick of the repeating step event
NextTick(r) ==
    /\ pc[r] = "loop"
    /\ KeepsRunning(r)
    /\ tick' = [tick EXCEPT ![r] = tick[r] + 1]
    /\ pc' = [pc EXCEPT ![r] = "steps"]
    /\ idx' = [idx EXCEPT ![r] = 0]
    /\ tick_start' = [tick_start EXCEPT ![r] = Visible(r)]
    /\ UNCHANGED <<model, agent_logger, grid_matrix, call, restored, draws, params, go, context, ghosts, agent_cache, sent, reduced,
                   summary>>

\* one iteration of "for agent in self.context.agents(): agent.step(self)"
AgentStep(r) ==
    /\ pc[r] = "steps"
    /\ idx[r] < Len(context[r])
    /\ \E ctx \in Step(r, context[r], idx[r] + 1) :
          context' = [context EXCEPT ![r] = ctx]
    /\ idx' = [idx EXCEPT ![r] = idx[r] + 1]
    /\ UNCHANGED <<model, agent_logger, grid_matrix, call, restored, draws, params, pc, tick, go, ghosts, agent_cache, sent, reduced,
                   summary, tick_start>>

\* SchellingAgent.save
Save(a) == <<a.uid, a.agent_type, a.threshold, a.happy, a.always_happy>>

\* faulty variant of Constructs: the cache is not consulted
ConstructsAlways(cache, agent_data) == TRUE

\* "if uid in agent_cache ... else": restore_agent constructs an instance
Constructs(cache, agent_data) == agent_data[1] \notin DOMAIN cache

\* faulty variant of restore_agent: the rank of the agent constructed is
\* read from uid[1]
restore_agent_wrong_rank(cache, agent_data) ==
    LET uid == agent_data[1]
        always_happy == IF Len(agent_data) > 4 THEN agent_data[5] ELSE FALSE
        agent == IF ~Constructs(cache, agent_data) THEN cache[uid]
                 ELSE [uid |-> NewUid(uid[1], uid[2]), agent_type |-> agent_data[2],
                       threshold |-> agent_data[3], happy |-> FALSE,
                       always_happy |-> always_happy]
    IN  [u \in DOMAIN cache \cup {uid} |->
            IF u = uid THEN [agent EXCEPT !.happy = agent_data[4]] ELSE cache[u]]

\* faulty variant of restore_agent: the always_happy field is not read
restore_agent_no_flag(cache, agent_data) ==
    LET uid == agent_data[1]
        agent == IF ~Constructs(cache, agent_data) THEN cache[uid]
                 ELSE [uid |-> NewUid(uid[1], uid[3]), agent_type |-> agent_data[2],
                       threshold |-> agent_data[3], happy |-> FALSE,
                       always_happy |-> FALSE]
    IN  [u \in DOMAIN cache \cup {uid} |->
            IF u = uid THEN [agent EXCEPT !.happy = agent_data[4]] ELSE cache[u]]

\* restore_agent: the cache after the call; the agent returned is the
\* cache's entry for the record's uid
restore_agent(cache, agent_data) ==
    LET uid == agent_data[1]
        always_happy == IF Len(agent_data) > 4 THEN agent_data[5] ELSE FALSE
        agent == IF ~Constructs(cache, agent_data) THEN cache[uid]
                 ELSE [uid |-> NewUid(uid[1], uid[3]), agent_type |-> agent_data[2],
                       threshold |-> agent_data[3], happy |-> FALSE,
                       always_happy |-> always_happy]
    IN  [u \in DOMAIN cache \cup {uid} |->
            IF u = uid THEN [agent EXCEPT !.happy = agent_data[4]] ELSE cache[u]]

RECURSIVE RestoreAll(_, _, _)
\* restore_agent called on the records of msgs from position i on
RestoreAll(cache, msgs, i) ==
    IF i > Len(msgs) THEN cache
    ELSE RestoreAll(restore_agent(cache, msgs[i].data), msgs, i + 1)

\* restore_agent raises IndexError: agent_data[3] is read on every path
RaisesIndexError(agent_data) == Len(agent_data) < 4

\* the cache restore_agent leaves when it raises: with three fields and no
\* cached instance the agent is constructed and cached before
\* "agent.happy = agent_data[3]" raises
CacheAtRaise(cache, agent_data) ==
    IF Len(agent_data) = 3 /\ agent_data[1] \notin DOMAIN cache
    THEN [u \in DOMAIN cache \cup {agent_data[1]} |->
            IF u = agent_data[1]
            THEN [uid |-> NewUid(agent_data[1][1], agent_data[1][3]),
                  agent_type |-> agent_data[2], threshold |-> agent_data[3],
                  happy |-> FALSE, always_happy |-> FALSE]
            ELSE cache[u]]
    ELSE cache

\* agents as synchronize sends them: save() and the grid location
Outgoing(agents) ==
    [i \in DOMAIN agents |-> [data |-> Save(agents[i]), pt |-> agents[i].pt]]

\* the agent is not on the grid of rank r or inside its tile
InTile(r, a) == a.pt = NoPt \/ a.pt \in LocalPts(r)

\* the first half of context.synchronize on rank r: the agents that left
\* the tile are handed over, the others are offered as ghosts
SyncPost(r) ==
    /\ pc[r] = "steps"
    /\ idx[r] = Len(context[r])
    /\ sent' = [sent EXCEPT ![r] =
            [tick |-> tick[r],
             agents |-> Outgoing(SelectSeq(context[r],
                                           LAMBDA a : a.pt \in LocalPts(r))),
             moved |-> Outgoing(SelectSeq(context[r],
                                          LAMBDA a : ~InTile(r, a)))]]
    /\ context' = [context EXCEPT ![r] =
            SelectSeq(context[r], LAMBDA a : InTile(r, a))]
    /\ pc' = [pc EXCEPT ![r] = "sync"]
    /\ tick_start' = [tick_start EXCEPT ![r] = {}]
    /\ UNCHANGED <<model, agent_logger, grid_matrix, call, restored, draws, params, idx, tick, go, ghosts, agent_cache, reduced, summary>>

RECURSIVE Received(_, _, _)
\* what rank r receives in the exchange from the ranks v, v+1, ...: the
\* records located in Where
Received(r, v, Where) ==
    IF v >= params.world_size THEN <<>>
    ELSE (IF v = r THEN <<>>
          ELSE SelectSeq(sent[v].agents \o sent[v].moved,
                         LAMBDA m : m.pt \in Where))
         \o Received(r, v + 1, Where)

\* the exchange of synchronize can complete on rank r: every rank has
\* handed in its agents of this tick
Exchanged(r) == \A v \in Ranks : sent[v].tick = tick[r]

\* faulty variant of log_rows: the agents that are not happy are left out
log_rows_happy_only(ctx, t) ==
    LET placed == SelectSeq(ctx, LAMBDA a : a.pt # NoPt /\ a.happy)
    IN  [i \in DOMAIN placed |->
           [tick |-> t, agent_id |-> placed[i].uid[1], rank |-> placed[i].uid[3],
            type |-> placed[i].agent_type, happy |-> 1,
            x |-> placed[i].pt[1], y |-> placed[i].pt[2]]]

\* the rows agent_logger.log_row is given in the statistics loop of
\* Model.step: one for every local agent that has a location
log_rows(ctx, t) ==
    LET placed == SelectSeq(ctx, LAMBDA a : a.pt # NoPt)
    IN  [i \in DOMAIN placed |->
           [tick |-> t, agent_id |-> placed[i].uid[1], rank |-> placed[i].uid[3],
            type |-> placed[i].agent_type,
            happy |-> IF placed[i].happy THEN 1 ELSE 0,
            x |-> placed[i].pt[1], y |-> placed[i].pt[2]]]

\* the statistics loop of Model.step
local_total(ctx) == Len(ctx)
\* faulty variant of local_happy: the agents are counted happy where they are
local_happy_everyone(ctx) == Len(ctx)

local_happy(ctx) == Cardinality({k \in DOMAIN ctx : ctx[k].happy})

\* faulty variant of GhostMirror: the ghosts received are patched into the
\* ghosts the rank already holds
GhostMirrorPatched(r) ==
    LET mirrored == Received(r, 0, BufferPts(r))
        fresh == {m.data[1] : m \in Range(mirrored)}
    IN  [u \in DOMAIN ghosts[r] \cup fresh |->
            IF u \in fresh
            THEN (CHOOSE m \in Range(mirrored) : m.data[1] = u).pt
            ELSE ghosts[r][u]]

\* the ghosts of rank r after the exchange of synchronize: the ghosts it
\* held are dropped, the agents received for its buffer take their place
GhostMirror(r) ==
    LET mirrored == Received(r, 0, BufferPts(r))
    IN  [u \in {m.data[1] : m \in Range(mirrored)} |->
            (CHOOSE m \in Range(mirrored) : m.data[1] = u).pt]

\* the second half of context.synchronize on rank r (arrivals join the
\* context, the ghosts are replaced by the ones received), the statistics
\* loop, and the entry into comm.allreduce
Synchronize(r) ==
    /\ pc[r] = "sync"
    /\ Exchanged(r)
    /\ LET arrivals == Received(r, 0, LocalPts(r))
           mirrored == Received(r, 0, BufferPts(r))
           cache == RestoreAll(agent_cache[r], arrivals \o mirrored, 1)
           ctx == context[r] \o
                  [i \in DOMAIN arrivals |->
                      [uid |-> cache[arrivals[i].data[1]].uid,
                       agent_type |-> cache[arrivals[i].data[1]].agent_type,
                       threshold |-> cache[arrivals[i].data[1]].threshold,
                       happy |-> cache[arrivals[i].data[1]].happy,
                       always_happy |-> cache[arrivals[i].data[1]].always_happy,
                       pt |-> arrivals[i].pt]]
       IN  /\ agent_cache' = [agent_cache EXCEPT ![r] = cache]
           /\ ghosts' = [ghosts EXCEPT ![r] = GhostMirror(r)]
           /\ context' = [context EXCEPT ![r] = ctx]
           /\ summary' = [summary EXCEPT ![r] =
                 [total_agents |-> local_total(ctx),
                  total_happy |-> local_happy(ctx), percent_happy |-> 0]]
           /\ agent_logger' = [agent_logger EXCEPT ![r] = log_rows(ctx, tick[r])]
           /\ reduced' = [reduced EXCEPT ![r] =
                 [tick |-> tick[r],
                  value |-> local_total(ctx) - local_happy(ctx)]]
    /\ pc' = [pc EXCEPT ![r] = "reduce"]
    /\ UNCHANGED <<model, grid_matrix, call, restored, draws, params, idx, tick, go, sent, tick_start>>

RECURSIVE SumReduced(_)
SumReduced(v) ==
    IF v >= params.world_size THEN 0 ELSE reduced[v].value + SumReduced(v + 1)

\* faulty variant of AllReduceReady: the reduction does not wait for the ranks
AllReduceNoWait(r) == TRUE

\* comm.allreduce(local_unhappy, op=MPI.SUM) can return on rank r
AllReduceReady(r) == \A v \in Ranks : reduced[v].tick = tick[r]

\* faulty variant of AllReduce: the local count is used unreduced
AllReduceLocal(r) == reduced[r].value

\* the value comm.allreduce returns on rank r
AllReduce(r) == SumReduced(0)

\* faulty variant of StopDue: the stop event comes one tick late
StopDueLate(r) == tick[r] > params.stop_at

\* the stop event of runner.schedule_stop(params["stop.at"]) is due
StopDue(r) == tick[r] = params.stop_at

\* the rest of Model.step from the return of allreduce (runner.stop() when
\* nobody is unhappy, agent_logger.write() of the rows logged), then the
\* stop event scheduled for this tick
ReduceDone(r) ==
    /\ pc[r] = "reduce"
    /\ AllReduceReady(r)
    /\ LET total_unhappy == AllReduce(r)
       IN  go' = [go EXCEPT ![r] =
                IF total_unhappy = 0 THEN FALSE
                ELSE IF StopDue(r) THEN FALSE ELSE go[r]]
    /\ agent_logger' = [agent_logger EXCEPT ![r] = <<>>]
    /\ pc' = [pc EXCEPT ![r] = "loop"]
    /\ UNCHANGED <<model, grid_matrix, call, restored, draws, params, idx, tick, context, ghosts, agent_cache, sent,
                   reduced, summary, tick_start>>

\* faulty variant of WritesMoran: the rank is not looked at
WritesMoranEveryRank(r) == params.moran_file

\* 'if self.rank == 0 and "moran_file" in self.params' of at_end
WritesMoran(r) == r = 0 /\ params.moran_file

\* the grid at_end fills from the agents of the context it is given: nan,
\* or 1 for type 1 and -1 for type 0 at [pt.y, pt.x], a later agent of the
\* loop overwriting an earlier one
at_end_grid_matrix(ctx) ==
    [y \in 1 .. params.world_height |-> [x \in 1 .. params.world_width |->
        LET here == {k \in DOMAIN ctx : ctx[k].pt = <<x - 1, y - 1>>}
        IN  IF here = {} THEN NaN
            ELSE LET last == CHOOSE k \in here : \A j \in here : j <= k
                 IN  IF ctx[last].agent_type = 1 THEN <<1>> ELSE <<-1>>]]

\* the loop of execute is left and the end event runs: Model.at_end, which
\* on rank 0 builds the grid and writes its Moran's I
AtEnd(r) ==
    /\ pc[r] = "loop"
    /\ ~KeepsRunning(r)
    /\ pc' = [pc EXCEPT ![r] = "done"]
    /\ IF WritesMoran(r)
       THEN /\ grid_matrix' = at_end_grid_matrix(context[r])
            /\ call' = [fn |-> "at_end", rank |-> r, tick |-> tick[r],
                        result |-> analysis_utils_calculate_morans_i(
                                      at_end_grid_matrix(context[r]))]
       ELSE UNCHANGED <<grid_matrix, call>>
    /\ UNCHANGED <<model, agent_logger, restored, draws, params, idx, tick, go, context,
                   ghosts, agent_cache, sent, reduced, summary, tick_start>>

Next ==
    \/ \E r \in Ranks : CreateAgent(r)
    \/ \E r \in Ranks : FinishInit(r)
    \/ \E r \in Ranks : NextTick(r)
    \/ \E r \in Ranks : AgentStep(r)
    \/ \E r \in Ranks : SyncPost(r)
    \/ \E r \in Ranks : Synchronize(r)
    \/ \E r \in Ranks : ReduceDone(r)
    \/ \E r \in Ranks : AtEnd(r)

Spec == Init /\ [][Next]_vars

----------------------------------------------------------------------------
(* The same run with SchellingAgent.move followed draw by draw.            *)

\* the world of the runs that follow move draw by draw: a row of 3 cells
MoveWidths == {3}

\* step of the k-th local agent gets as far as "if not self.happy"
CallsMove(r, ctx, k) ==
    LET self == ctx[k]
        nghs == Find(self.pt[1], self.pt[2])
        similar == CountNeighbors(r, ctx, self, nghs, 1, TRUE)
        total_neighbors == CountNeighbors(r, ctx, self, nghs, 1, FALSE)
    IN  /\ self.pt # NoPt
        /\ ~self.always_happy
        /\ ~Satisfied(similar, total_neighbors, self.threshold)

\* faulty variant of MoveLoopRuns: the range is one iteration longer
MoveLoopRunsOnceMore(n) == n <= Attempts

\* "for _ in range(100)" of move has an iteration left after n iterations
MoveLoopRuns(n) == n < Attempts

\* one iteration of the agent loop of Model.step, up to the call of move
StepCall(r) ==
    /\ pc[r] = "steps"
    /\ idx[r] < Len(context[r])
    /\ IF CallsMove(r, context[r], idx[r] + 1)
       THEN /\ context' = [context EXCEPT ![r][idx[r] + 1].happy = FALSE]
            /\ pc' = [pc EXCEPT ![r] = "move"]
            /\ idx' = idx
       ELSE /\ \E ctx \in Step(r, context[r], idx[r] + 1) :
                  context' = [context EXCEPT ![r] = ctx]
            /\ pc' = pc
            /\ idx' = [idx EXCEPT ![r] = idx[r] + 1]
    /\ UNCHANGED <<model, agent_logger, grid_matrix, call, restored, draws, params, tick, go, ghosts, agent_cache, sent, reduced,
                   summary, tick_start>>

\* one iteration of the loop of move: a local point is drawn; if no agent is
\* on it the agent is moved there and move returns
MoveDraw(r) ==
    /\ pc[r] = "move"
    /\ MoveLoopRuns(draws[r])
    /\ \E dest \in LocalPts(r) :
          IF GetAgents(context[r], ghosts[r], agent_cache[r], dest) = {}
          THEN /\ context' = [context EXCEPT ![r] =
                     GridMove(context[r], ghosts[r], agent_cache[r],
                              idx[r] + 1, dest)]
               /\ draws' = [draws EXCEPT ![r] = 0]
               /\ pc' = [pc EXCEPT ![r] = "steps"]
               /\ idx' = [idx EXCEPT ![r] = idx[r] + 1]
          ELSE /\ draws' = [draws EXCEPT ![r] = draws[r] + 1]
               /\ UNCHANGED <<agent_logger, grid_matrix, call, context, pc, idx>>
    /\ UNCHANGED <<model, agent_logger, grid_matrix, call, restored, params, tick, go, ghosts, agent_cache, sent,
                   reduced, summary, tick_start>>

\* the range of move is exhausted: move returns, the agent stays
MoveReturn(r) ==
    /\ pc[r] = "move"
    /\ ~MoveLoopRuns(draws[r])
    /\ draws' = [draws EXCEPT ![r] = 0]
    /\ pc' = [pc EXCEPT ![r] = "steps"]
    /\ idx' = [idx EXCEPT ![r] = idx[r] + 1]
    /\ UNCHANGED <<model, agent_logger, grid_matrix, call, restored, params, tick, go, context, ghosts, agent_cache,
                   sent, reduced, summary, tick_start>>

MoveInit == Init /\ params.world_width \in MoveWidths

MoveNext ==
    \/ \E r \in Ranks : CreateAgent(r)
    \/ \E r \in Ranks : FinishInit(r)
    \/ \E r \in Ranks : NextTick(r)
    \/ \E r \in Ranks : StepCall(r)
    \/ \E r \in Ranks : MoveDraw(r)
    \/ \E r \in Ranks : MoveReturn(r)
    \/ \E r \in Ranks : SyncPost(r)
    \/ \E r \in Ranks : Synchronize(r)
    \/ \E r \in Ranks : ReduceDone(r)
    \/ \E r \in Ranks : AtEnd(r)

SpecMove == MoveInit /\ [][MoveNext]_vars

----------------------------------------------------------------------------
(* The run on a 3x3 world with two agents and threshold 1.0.               *)

\* world 3x3, empty_ratio 0.75 (int(9 * 0.25) = 2 agents), threshold 1.0,
\* no always_happy agents, Moore neighbourhood, no moran_file parameter
TwoInit ==
    /\ params \in [world_width : {3}, world_height : {3},
                   world_size : WorldSizes, empty_ratio : {3},
                   threshold : {<<1, 1>>}, always_happy_ratio : {0},
                   neighborhood : {"8"}, stop_at : {MaxTick},
                   moran_file : {FALSE}]
    /\ Constructed
    /\ grid_matrix = <<>>

SpecTwo == TwoInit /\ [][MoveNext]_vars

----------------------------------------------------------------------------
(* save and restore_agent on their own: two ranks hand an agent to and fro *)
(* and mirror each other's agents, as context.synchronize does with the    *)
(* records of agents that left the tile and of agents in the buffer zone.  *)

\* the calls of restore_agent followed
MaxCalls == 3

\* the records on their way to another rank
InFlight == Len(sent[0].moved) + Len(sent[1].moved)

CodecInit ==
    /\ params \in [world_width : {4}, world_height : Heights,
                   world_size : {2}, empty_ratio : {2},
                   threshold : Thresholds, always_happy_ratio : {2},
                   neighborhood : Neighborhoods, stop_at : {MaxTick},
                   moran_file : MoranFiles]
    /\ pc = [r \in Ranks |-> "codec"]
    /\ \E a_type \in [Ranks -> {0, 1}], is_always_happy \in [Ranks -> BOOLEAN] :
          context = [r \in Ranks |->
             <<[SchellingAgent(0, r, a_type[r], params.threshold,
                               is_always_happy[r])
                  EXCEPT !.pt = <<LocalXMin(r), 0>>]>>]
    /\ sent = [r \in Ranks |->
                 [tick |-> 0, agents |-> Outgoing(context[r]), moved |-> <<>>]]
    /\ idx = [r \in Ranks |-> 0]
    /\ tick = [r \in Ranks |-> 0]
    /\ go = [r \in Ranks |-> TRUE]
    /\ ghosts = [r \in Ranks |-> <<>>]
    /\ agent_cache = [r \in Ranks |-> <<>>]
    /\ reduced = [r \in Ranks |-> [tick |-> 0, value |-> 0]]
    /\ summary = [r \in Ranks |-> [total_agents |-> 0, total_happy |-> 0,
                                   percent_happy |-> 0]]
    /\ tick_start = [r \in Ranks |-> {}]
    /\ model = <<>>
    /\ draws = [r \in Ranks |-> 0]
    /\ restored = [r \in Ranks |-> <<>>]
    /\ call = <<>>
    /\ grid_matrix = <<>>
    /\ agent_logger = [r \in Ranks |-> <<>>]

\* step writes the happy flag of a local agent
CodecFlip(r) ==
    /\ pc[r] = "codec"
    /\ \E k \in DOMAIN context[r] :
          context' = [context EXCEPT ![r][k].happy = ~context[r][k].happy]
    /\ UNCHANGED <<model, agent_logger, grid_matrix, call, restored, draws, params, pc, idx, tick, go, ghosts,
                   agent_cache, sent, reduced, summary, tick_start>>

\* synchronize on rank r: a local agent stands on a vacant point of another
\* rank's tile; its record is sent with the point and the agent is removed
\* from the context
CodecSend(r) ==
    /\ pc[r] = "codec"
    /\ idx[0] + idx[1] + InFlight < MaxCalls
    /\ \E k \in DOMAIN context[r], v \in Ranks \ {r} :
          /\ \E d \in LocalPts(v) :
                /\ \A j \in DOMAIN context[v] : context[v][j].pt # d
                /\ \A m \in Range(sent[r].moved) : m.pt # d
                /\ sent' = [sent EXCEPT ![r].moved =
                      Append(sent[r].moved,
                             [data |-> Save(context[r][k]), pt |-> d])]
          /\ context' = [context EXCEPT ![r] =
                SubSeq(context[r], 1, k - 1)
                  \o SubSeq(context[r], k + 1, Len(context[r]))]
    /\ UNCHANGED <<model, agent_logger, grid_matrix, call, restored, draws, params, pc, idx, tick, go, ghosts,
                   agent_cache, reduced, summary, tick_start>>

\* synchronize on rank q: the record of an arriving agent is passed to
\* restore_agent and the agent returned joins the context; an exception of
\* restore_agent leaves synchronize, Model.step and the runner
CodecReceive(q) ==
    /\ pc[q] = "codec"
    /\ \E v \in Ranks \ {q} :
          /\ sent[v].moved # <<>>
          /\ LET m == Head(sent[v].moved)
                 cache == IF RaisesIndexError(m.data)
                          THEN CacheAtRaise(agent_cache[q], m.data)
                          ELSE restore_agent(agent_cache[q], m.data)
                 agent == IF RaisesIndexError(m.data) THEN <<>>
                          ELSE cache[m.data[1]]
             IN  /\ agent_cache' = [agent_cache EXCEPT ![q] = cache]
                 /\ restored' = [restored EXCEPT ![q] =
                       [data |-> m.data, of |-> <<>>, before |-> agent_cache[q],
                        constructed |-> IF m.data = <<>> THEN FALSE
                                        ELSE Constructs(agent_cache[q], m.data),
                        agent |-> agent]]
                 /\ IF RaisesIndexError(m.data)
                    THEN /\ pc' = [pc EXCEPT ![q] = "error"]
                         /\ context' = context
                    ELSE /\ pc' = pc
                         /\ context' = [context EXCEPT ![q] =
                               Append(context[q],
                                      [uid |-> agent.uid,
                                       agent_type |-> agent.agent_type,
                                       threshold |-> agent.threshold,
                                       happy |-> agent.happy,
                                       always_happy |-> agent.always_happy,
                                       pt |-> m.pt])]
          /\ sent' = [sent EXCEPT ![v].moved = Tail(sent[v].moved)]
    /\ idx' = [idx EXCEPT ![q] = idx[q] + 1]
    /\ UNCHANGED <<model, agent_logger, grid_matrix, call, draws, params, tick, go, ghosts, reduced, summary,
                   tick_start>>

\* synchronize on rank q: the record of an agent of another rank that
\* stands in q's buffer zone is passed to restore_agent
CodecMirror(q) ==
    /\ pc[q] = "codec"
    /\ idx[0] + idx[1] + InFlight < MaxCalls
    /\ \E v \in Ranks \ {q} : \E k \in DOMAIN context[v] :
          LET a == context[v][k]
              cache == restore_agent(agent_cache[q], Save(a))
          IN  /\ agent_cache' = [agent_cache EXCEPT ![q] = cache]
              /\ restored' = [restored EXCEPT ![q] =
                    [data |-> Save(a), of |-> a, before |-> agent_cache[q],
                     constructed |-> Constructs(agent_cache[q], Save(a)),
                     agent |-> cache[a.uid]]]
    /\ idx' = [idx EXCEPT ![q] = idx[q] + 1]
    /\ UNCHANGED <<model, agent_logger, grid_matrix, call, draws, params, pc, tick, go, context, ghosts, sent, reduced,
                   summary, tick_start>>

\* a record on its way from rank v loses its last fields
CodecTruncate(v) ==
    /\ sent[v].moved # <<>>
    /\ Len(Head(sent[v].moved).data) = 5
    /\ \E n \in 0 .. 4 :
          sent' = [sent EXCEPT ![v].moved =
             <<[data |-> SubSeq(Head(sent[v].moved).data, 1, n),
                pt |-> Head(sent[v].moved).pt]>> \o Tail(sent[v].moved)]
    /\ UNCHANGED <<model, agent_logger, grid_matrix, call, restored, draws, params, pc, idx, tick, go, context, ghosts,
                   agent_cache, reduced, summary, tick_start>>

CodecNext ==
    \/ \E r \in Ranks : CodecFlip(r)
    \/ \E r \in Ranks : CodecSend(r)
    \/ \E r \in Ranks : CodecReceive(r)
    \/ \E r \in Ranks : CodecMirror(r)

SpecCodec == CodecInit /\ [][CodecNext]_vars

CorruptNext ==
    \/ \E r \in Ranks : CodecFlip(r)
    \/ \E r \in Ranks : CodecSend(r)
    \/ \E r \in Ranks : CodecReceive(r)
    \/ \E r \in Ranks : CodecMirror(r)
    \/ \E r \in Ranks : CodecTruncate(r)

SpecCorrupt == CodecInit /\ [][CorruptNext]_vars

----------------------------------------------------------------------------
(* lec04/schelling/neighborhoods.py: the offset lists by kind and radius.  *)

\* faulty variant of KeepVonNeumann: the distance is taken without abs
KeepVonNeumannSigned(radius, dx, dy) == 0 < dx + dy /\ dx + dy <= radius

\* the test of get_von_neumann_offsets: 0 < manhattan_distance <= radius
KeepVonNeumann(radius, dx, dy) ==
    0 < Abs(dx) + Abs(dy) /\ Abs(dx) + Abs(dy) <= radius

\* the test of get_moore_offsets: not the origin, chebyshev_distance <= radius
KeepMoore(radius, dx, dy) ==
    /\ ~(dx = 0 /\ dy = 0)
    /\ (IF Abs(dx) > Abs(dy) THEN Abs(dx) ELSE Abs(dy)) <= radius

RECURSIVE OffsetRow(_, _, _, _)
\* the inner loop "for dy in range(-radius, radius + 1)" from dy on,
\* appending the offsets the test of the kind keeps
OffsetRow(kind, radius, dx, dy) ==
    IF dy > radius THEN <<>>
    ELSE (IF (IF kind = "von_neumann" THEN KeepVonNeumann(radius, dx, dy)
              ELSE KeepMoore(radius, dx, dy))
          THEN <<(<<dx, dy>>)>> ELSE <<>>)
         \o OffsetRow(kind, radius, dx, dy + 1)

RECURSIVE OffsetScan(_, _, _)
\* the outer loop "for dx in range(-radius, radius + 1)" from dx on
OffsetScan(kind, radius, dx) ==
    IF dx > radius THEN <<>>
    ELSE OffsetRow(kind, radius, dx, -radius) \o OffsetScan(kind, radius, dx + 1)

get_von_neumann_offsets(radius) == OffsetScan("von_neumann", radius, -radius)

get_moore_offsets(radius) == OffsetScan("moore", radius, -radius)

get_extended_offsets(radius) == get_moore_offsets(radius)

\* faulty variant of offsets_by_type: an unknown type is taken as MOORE
offsets_by_type_lenient(neighborhood_type, radius) ==
    IF neighborhood_type = "von_neumann"
    THEN [error |-> "none", offsets |-> get_von_neumann_offsets(radius)]
    ELSE IF neighborhood_type = "extended"
    THEN [error |-> "none",
          offsets |-> get_extended_offsets(IF radius > 1 THEN radius ELSE 2)]
    ELSE [error |-> "none", offsets |-> get_moore_offsets(radius)]

\* neighborhoods.get_neighborhood_offsets(neighborhood_type, radius): the
\* list returned, or the exception raised
offsets_by_type(neighborhood_type, radius) ==
    IF neighborhood_type = "von_neumann"
    THEN [error |-> "none", offsets |-> get_von_neumann_offsets(radius)]
    ELSE IF neighborhood_type = "moore"
    THEN [error |-> "none", offsets |-> get_moore_offsets(radius)]
    ELSE IF neighborhood_type = "extended"
    THEN [error |-> "none",
          offsets |-> get_extended_offsets(IF radius > 1 THEN radius ELSE 2)]
    ELSE [error |-> "ValueError", offsets |-> <<>>]

\* get_von_neumann_kernel(radius): kernel[i, j] at [i + 1][j + 1]
get_von_neumann_kernel(radius) ==
    LET size   == (2 * radius) + 1
        center == radius
    IN  [i \in 1 .. size |-> [j \in 1 .. size |->
           LET manhattan_distance == Abs((i - 1) - center) + Abs((j - 1) - center)
           IN  IF 0 < manhattan_distance /\ manhattan_distance <= radius
               THEN 1 ELSE 0]]

\* faulty variant of get_moore_kernel: the centre is not set to 0
get_moore_kernel_with_centre(radius) ==
    [i \in 1 .. ((2 * radius) + 1) |-> [j \in 1 .. ((2 * radius) + 1) |-> 1]]

\* get_moore_kernel(radius): np.ones with kernel[radius, radius] = 0
get_moore_kernel(radius) ==
    [i \in 1 .. ((2 * radius) + 1) |-> [j \in 1 .. ((2 * radius) + 1) |->
        IF i - 1 = radius /\ j - 1 = radius THEN 0 ELSE 1]]

get_extended_kernel(radius) == get_moore_kernel(radius)

\* neighborhoods.get_neighborhood_kernel(neighborhood_type, radius): the
\* array returned, or the exception raised
get_neighborhood_kernel(neighborhood_type, radius) ==
    IF neighborhood_type = "von_neumann"
    THEN [error |-> "none", kernel |-> get_von_neumann_kernel(radius)]
    ELSE IF neighborhood_type = "moore"
    THEN [error |-> "none", kernel |-> get_moore_kernel(radius)]
    ELSE IF neighborhood_type = "extended"
    THEN [error |-> "none",
          kernel |-> get_extended_kernel(IF radius > 1 THEN radius ELSE 2)]
    ELSE [error |-> "ValueError", kernel |-> <<>>]

----------------------------------------------------------------------------
(* lec04/schelling/utility_classes.py and utility_functions.py: the        *)
(* threshold utility.  A threshold is a fraction <<numerator,              *)
(* denominator>> with a positive denominator; the comparison of            *)
(* similar_count / total_count with it is exact on the counts followed.    *)

\* ThresholdUtility.__init__: ValueError unless 0 <= threshold <= 1
ThresholdUtility_init(threshold) ==
    IF 0 <= threshold[1] /\ threshold[1] <= threshold[2]
    THEN "none" ELSE "ValueError"

\* faulty variant of ThresholdUtility_calculate: a fraction equal to the
\* threshold does not satisfy
ThresholdUtility_calculate_strict(threshold, similar_count, total_count) ==
    IF total_count = 0 THEN 0
    ELSE IF similar_count * threshold[2] > threshold[1] * total_count
         THEN 1 ELSE 0

\* ThresholdUtility(threshold).calculate(similar_count, total_count)
ThresholdUtility_calculate(threshold, similar_count, total_count) ==
    IF total_count = 0 THEN 0
    ELSE IF similar_count * threshold[2] >= threshold[1] * total_count
         THEN 1 ELSE 0

\* threshold_utility(similar_count, total_count, params) of
\* utility_functions.py, params a dictionary that may lack "threshold"
threshold_utility(similar_count, total_count, dict) ==
    LET threshold == IF "threshold" \in DOMAIN dict THEN dict.threshold
                     ELSE <<3, 10>>
    IN  IF total_count = 0 THEN 0
        ELSE IF similar_count * threshold[2] >= threshold[1] * total_count
             THEN 1 ELSE 0

----------------------------------------------------------------------------
(* The neighbourhood functions on their own: Model.__init__ has read the   *)
(* parameters; the offset functions and GridNghFinder.find are called.     *)
(* The functions keep no state between calls, so each call is followed    *)
(* from the state Model.__init__ leaves.                                   *)

\* the largest radius and the longest side of the grid followed
MaxRadius == 3
MaxSide == 3

\* the names given to get_neighborhood_offsets: the six it knows, two others
Names == {"4", "8", "12", "24", "48", "80", "6", "moore"}

\* the values of NeighborhoodType, and a value that is none of them
Kinds == {"von_neumann", "moore", "extended", "hex"}

LookupInit ==
    /\ params \in [world_width : 1 .. MaxSide, world_height : 1 .. MaxSide,
                   world_size : {1}, empty_ratio : {1},
                   threshold : {<<1, 2>>}, always_happy_ratio : {0},
                   neighborhood : Names, stop_at : {MaxTick},
                   moran_file : MoranFiles]
    /\ Constructed
    /\ grid_matrix = <<>>

\* get_neighborhood_offsets(name) of lecture_03
CallOffsets ==
    /\ call = <<>>
    /\ \E name \in Names :
          call' = [fn |-> "get_neighborhood_offsets", name |-> name,
                   error |-> "none", offsets |-> get_neighborhood_offsets(name)]
    /\ UNCHANGED <<model, agent_logger, grid_matrix, restored, draws, params, pc, idx, tick, go, context, ghosts,
                   agent_cache, sent, reduced, summary, tick_start>>

\* get_neighborhood_offsets(neighborhood_type, radius) of lec04
CallOffsetsByType ==
    /\ call = <<>>
    /\ \E kind \in Kinds, radius \in -1 .. MaxRadius :
          call' = [fn |-> "neighborhoods.get_neighborhood_offsets",
                   kind |-> kind, radius |-> radius,
                   error |-> offsets_by_type(kind, radius).error,
                   offsets |-> offsets_by_type(kind, radius).offsets]
    /\ UNCHANGED <<model, agent_logger, grid_matrix, restored, draws, params, pc, idx, tick, go, context, ghosts,
                   agent_cache, sent, reduced, summary, tick_start>>

\* ngh_finder.find(x, y) on the grid of the parameters
CallFind ==
    /\ call = <<>>
    /\ \E x \in 0 .. (params.world_width - 1),
          y \in 0 .. (params.world_height - 1) :
          call' = [fn |-> "find", x |-> x, y |-> y, found |-> Find(x, y)]
    /\ UNCHANGED <<model, agent_logger, grid_matrix, restored, draws, params, pc, idx, tick, go, context, ghosts,
                   agent_cache, sent, reduced, summary, tick_start>>

\* get_neighborhood_kernel(neighborhood_type, radius) of lec04
CallKernel ==
    /\ call = <<>>
    /\ \E kind \in Kinds, radius \in 0 .. MaxRadius :
          call' = [fn |-> "get_neighborhood_kernel",
                   kind |-> kind, radius |-> radius,
                   error |-> get_neighborhood_kernel(kind, radius).error,
                   kernel |-> get_neighborhood_kernel(kind, radius).kernel]
    /\ UNCHANGED <<model, agent_logger, grid_matrix, restored, draws, params, pc, idx,
                   tick, go, context, ghosts, agent_cache, sent, reduced,
                   summary, tick_start>>

\* the largest number of neighbours given to the utility functions
MaxCount == 8

\* the thresholds given to them: in [0, 1], and two outside
UtilityThresholds ==
    {<<0, 1>>, <<1, 4>>, <<3, 10>>, <<1, 2>>, <<2, 3>>, <<1, 1>>,
     <<3, 2>>, <<-1, 2>>}

\* ThresholdUtility(threshold).calculate(similar_count, total_count)
CallThresholdUtility ==
    /\ call = <<>>
    /\ \E threshold \in UtilityThresholds, total_count \in 0 .. MaxCount :
         \E similar_count \in 0 .. total_count :
          call' = [fn |-> "ThresholdUtility.calculate",
                   threshold |-> threshold,
                   similar_count |-> similar_count,
                   total_count |-> total_count,
                   error |-> ThresholdUtility_init(threshold),
                   result |-> IF ThresholdUtility_init(threshold) = "none"
                              THEN ThresholdUtility_calculate(
                                      threshold, similar_count, total_count)
                              ELSE 0]
    /\ UNCHANGED <<model, agent_logger, grid_matrix, restored, draws, params, pc, idx,
                   tick, go, context, ghosts, agent_cache, sent, reduced,
                   summary, tick_start>>

\* threshold_utility(similar_count, total_count, {"threshold": threshold}),
\* and threshold_utility(similar_count, total_count, {})
CallThresholdFunction ==
    /\ call = <<>>
    /\ \E dict \in {[threshold |-> t] : t \in UtilityThresholds}
                       \cup {[other |-> 0]},
          total_count \in 0 .. MaxCount :
         \E similar_count \in 0 .. total_count :
          call' = [fn |-> "threshold_utility", params |-> dict,
                   similar_count |-> similar_count,
                   total_count |-> total_count,
                   error |-> "none",
                   result |-> threshold_utility(similar_count, total_count,
                                                dict)]
    /\ UNCHANGED <<model, agent_logger, grid_matrix, restored, draws, params, pc, idx,
                   tick, go, context, ghosts, agent_cache, sent, reduced,
                   summary, tick_start>>

LookupNext ==
    \/ CallOffsets
    \/ CallOffsetsByType
    \/ CallFind
    \/ CallKernel
    \/ CallThresholdUtility
    \/ CallThresholdFunction

SpecLookup == LookupInit /\ [][LookupNext]_vars

----------------------------------------------------------------------------
(* calculate_morans_i on its own: a script builds a grid and calls it.     *)

\* a grid is drawn; the run it comes from is configured with the
\* 4-neighbourhood
MoranInit ==
    /\ params \in [world_width : {1}, world_height : {1}, world_size : {1},
                   empty_ratio : {1}, threshold : {<<1, 2>>},
                   always_happy_ratio : {0}, neighborhood : {"4"},
                   stop_at : {MaxTick},
                   moran_file : MoranFiles]
    /\ Constructed
    /\ grid_matrix \in Grids

\* the one call calculate_morans_i(grid) a run of the script makes, of
\* final_stats.py
CallFinalStats ==
    /\ call = <<>>
    /\ call' = [fn |-> "final_stats.calculate_morans_i",
                result |-> final_stats_calculate_morans_i(grid_matrix)]
    /\ UNCHANGED <<model, agent_logger, grid_matrix, restored, draws, params, pc, idx, tick, go,
                   context, ghosts, agent_cache, sent, reduced, summary,
                   tick_start>>

\* the one call calculate_morans_i(grid) a run of the script makes, of
\* analysis_utils.py
CallAnalysisUtils ==
    /\ call = <<>>
    /\ call' = [fn |-> "analysis_utils.calculate_morans_i",
                result |-> analysis_utils_calculate_morans_i(grid_matrix)]
    /\ UNCHANGED <<model, agent_logger, grid_matrix, restored, draws, params, pc, idx, tick, go,
                   context, ghosts, agent_cache, sent, reduced, summary,
                   tick_start>>

MoranNext ==
    \/ CallFinalStats
    \/ CallAnalysisUtils

SpecMoran == MoranInit /\ [][MoranNext]_vars

-----------------------------------------------------------------------------
(* The single-process Schelling model of lectures/lec04 (model.py and      *)
(* agents.py, on mesa's OrthogonalMooreGrid with capacity 1).              *)

\* the largest number of agents a constructed model holds
MaxAgents == 3

\* the number of calls of Schelling.step followed
MaxSteps == 2

\* the (width, height) the models are constructed with
GridShapes == {<<3, 1>>, <<2, 2>>, <<3, 2>>}

\* the homophily values (fractions) the models are constructed with
Homophilies == {<<2, 5>>}

\* the neighborhood types the models are constructed with
SchellingKinds == {"moore", "von_neumann"}

\* grid.all_cells, in the order the cells are created
all_cells(width, height) ==
    [k \in 1 .. (width * height) |-> <<(k - 1) \div height, (k - 1) % height>>]

\* the cells of the grid that hold no agent
empties(m) ==
    {c \in Range(all_cells(m.width, m.height)) :
        \A i \in DOMAIN m.agents : m.agents[i].cell # c}

\* the cell an offset leads to from cell c: wrapped around when the grid
\* has a width attribute, as it is otherwise
neighbor_coordinate(m, c, d) ==
    IF m.grid_has_width
    THEN <<(c[1] + d[1]) % m.width, (c[2] + d[2]) % m.height>>
    ELSE <<c[1] + d[1], c[2] + d[2]>>

\* SchellingAgent.get_neighbors of agent i: one entry <<k, j>> for each
\* offset k that leads to the cell of an agent j
get_neighbors(m, i) ==
    LET offsets == offsets_by_type(m.neighborhood_type,
                                   m.neighborhood_radius).offsets
    IN  {<<k, j>> \in (DOMAIN offsets) \X (DOMAIN m.agents) :
            m.agents[j].cell =
               neighbor_coordinate(m, m.agents[i].cell, offsets[k])}

\* SchellingAgent.calculate_utility of agent i, with the model's
\* ThresholdUtility(threshold=homophily)
calculate_utility(m, i) ==
    LET neighbors     == get_neighbors(m, i)
        total_count   == Cardinality(neighbors)
        similar_count == Cardinality({n \in neighbors :
                            m.agents[n[2]].type = m.agents[i].type})
    IN  ThresholdUtility_calculate(m.homophily, similar_count, total_count)

\* the happy flag assign_state gives agent i: utility >= 0.5
is_happy(m, i) == 2 * calculate_utility(m, i) >= 1

\* self.agents.do("assign_state"): every agent's flag is set from its
\* utility, and model.happy grows by one for each agent found happy
do_assign_state(m) ==
    LET flagged == [i \in DOMAIN m.agents |->
                      [m.agents[i] EXCEPT !.happy = is_happy(m, i)]]
    IN  [m EXCEPT !.agents = flagged,
                  !.happy = m.happy
                      + Cardinality({i \in DOMAIN flagged : flagged[i].happy})]

RECURSIVE create_agents(_, _, _)
\* the creation loop over grid.all_cells from cell k on: placement[k] is -1
\* where the density draw leaves the cell empty, the agent type otherwise
create_agents(cells, placement, k) ==
    IF k > Len(cells) THEN <<>>
    ELSE (IF placement[k] = -1 THEN <<>>
          ELSE <<[cell |-> cells[k], type |-> placement[k], happy |-> FALSE]>>)
         \o create_agents(cells, placement, k + 1)

\* Schelling.__init__: the model when the constructor returns
Schelling_init(shape, homophily, neighborhood_type, grid_has_width, placement) ==
    do_assign_state(
        [name |-> "Schelling", width |-> shape[1], height |-> shape[2],
         homophily |-> homophily, neighborhood_type |-> neighborhood_type,
         neighborhood_radius |-> 1, grid_has_width |-> grid_has_width,
         agents |-> create_agents(all_cells(shape[1], shape[2]), placement, 1),
         happy |-> 0, running |-> TRUE, steps |-> 0,
         pc |-> "ready", todo |-> {}])

SchellingInit ==
    /\ params \in [world_width : {3}, world_height : {1},
                   world_size : {1}, empty_ratio : {1},
                   threshold : {<<1, 2>>}, always_happy_ratio : {0},
                   neighborhood : {"8"}, stop_at : {MaxTick},
                   moran_file : MoranFiles]
    /\ pc = [r \in Ranks |-> "init"]
    /\ idx = [r \in Ranks |-> 0]
    /\ tick = [r \in Ranks |-> 0]
    /\ go = [r \in Ranks |-> TRUE]
    /\ context = [r \in Ranks |-> <<>>]
    /\ ghosts = [r \in Ranks |-> <<>>]
    /\ agent_cache = [r \in Ranks |-> <<>>]
    /\ sent = [r \in Ranks |-> [tick |-> 0, agents |-> <<>>, moved |-> <<>>]]
    /\ reduced = [r \in Ranks |-> [tick |-> 0, value |-> 0]]
    /\ summary = [r \in Ranks |-> [total_agents |-> 0, total_happy |-> 0,
                                   percent_happy |-> 0]]
    /\ tick_start = [r \in Ranks |-> {}]
    /\ draws = [r \in Ranks |-> 0]
    /\ restored = [r \in Ranks |-> <<>>]
    /\ call = <<>>
    /\ agent_logger = [r \in Ranks |-> <<>>]
    /\ grid_matrix = <<>>
    /\ \E shape \in GridShapes, homophily \in Homophilies,
          neighborhood_type \in SchellingKinds, grid_has_width \in BOOLEAN :
         \E placement \in [1 .. (shape[1] * shape[2]) -> {-1, 0, 1}] :
            /\ Cardinality({k \in DOMAIN placement : placement[k] # -1})
                  <= MaxAgents
            /\ model = Schelling_init(shape, homophily, neighborhood_type,
                                      grid_has_width, placement)

\* Schelling.step up to shuffle_do: the counter is reset and the agents
\* are put in a random order
SchellingStepBegin ==
    /\ model.pc = "ready"
    /\ model.steps < MaxSteps
    /\ model' = [model EXCEPT !.happy = 0, !.pc = "shuffle_do",
                              !.todo = DOMAIN model.agents]
    /\ UNCHANGED <<agent_logger, grid_matrix, call, restored, draws, params,
                   pc, idx, tick, go, context, ghosts, agent_cache, sent,
                   reduced, summary, tick_start>>

\* faulty variant of stays: no agent stays
stays_never(agent) == FALSE

\* SchellingAgent.step leaves the agent where it is: its happy flag is set
stays(agent) == agent.happy

\* SchellingAgent.step of the agent shuffle_do activates next: an unhappy
\* agent takes grid.select_random_empty_cell(), which returns nothing when
\* no cell is empty
SchellingAgentStep(i) ==
    /\ model.pc = "shuffle_do"
    /\ i \in model.todo
    /\ IF stays(model.agents[i])
       THEN model' = [model EXCEPT !.todo = @ \ {i}]
       ELSE \E cell \in empties(model) :
               model' = [model EXCEPT !.todo = @ \ {i},
                                      !.agents[i].cell = cell]
    /\ UNCHANGED <<agent_logger, grid_matrix, call, restored, draws, params,
                   pc, idx, tick, go, context, ghosts, agent_cache, sent,
                   reduced, summary, tick_start>>

\* self.happy < len(self.agents)
still_running(m) == m.happy < Len(m.agents)

\* the rest of Schelling.step: do("assign_state"), the running flag, and
\* the step counter mesa keeps
SchellingStepEnd ==
    /\ model.pc = "shuffle_do"
    /\ model.todo = {}
    /\ LET assigned == do_assign_state(model)
       IN  model' = [assigned EXCEPT !.running = still_running(assigned),
                                     !.steps = @ + 1, !.pc = "ready"]
    /\ UNCHANGED <<agent_logger, grid_matrix, call, restored, draws, params,
                   pc, idx, tick, go, context, ghosts, agent_cache, sent,
                   reduced, summary, tick_start>>

SchellingNext ==
    \/ SchellingStepBegin
    \/ \E i \in 1 .. MaxAgents : SchellingAgentStep(i)
    \/ SchellingStepEnd

SpecSchelling == SchellingInit /\ [][SchellingNext]_vars

-----------------------------------------------------------------------------
(* The money model of lectures/lec01/2_homework_lecture1 (model.py and     *)
(* agents.py, on mesa's OrthogonalMooreGrid without torus).                *)

\* the (width, height) the money models are constructed with
MoneyShapes == {<<2, 1>>, <<2, 2>>}

\* cell.neighborhood: the cells of the grid next to c, diagonals included
neighborhood(m, c) ==
    {d \in Range(all_cells(m.width, m.height)) :
        d # c /\ Abs(d[1] - c[1]) <= 1 /\ Abs(d[2] - c[2]) <= 1}

\* the other agents in the cell of agent i
cellmates(agents, i) ==
    {j \in DOMAIN agents : j # i /\ agents[j].cell = agents[i].cell}

\* faulty variant of can_give: wealth is not looked at
can_give_always(agent) == TRUE

\* the test "if self.wealth > 0" of MoneyAgent.step
can_give(agent) == agent.wealth > 0

\* MoneyModel.__init__: n agents of wealth 1 on the cells drawn for them
MoneyModel_init(n, shape, cells) ==
    [name |-> "MoneyModel", num_agents |-> n,
     width |-> shape[1], height |-> shape[2],
     agents |-> [i \in 1 .. n |-> [cell |-> cells[i], wealth |-> 1]],
     steps |-> 0, pc |-> "ready", todo |-> {}]

MoneyInit ==
    /\ params \in [world_width : {3}, world_height : {1},
                   world_size : {1}, empty_ratio : {1},
                   threshold : {<<1, 2>>}, always_happy_ratio : {0},
                   neighborhood : {"8"}, stop_at : {MaxTick},
                   moran_file : MoranFiles]
    /\ pc = [r \in Ranks |-> "init"]
    /\ idx = [r \in Ranks |-> 0]
    /\ tick = [r \in Ranks |-> 0]
    /\ go = [r \in Ranks |-> TRUE]
    /\ context = [r \in Ranks |-> <<>>]
    /\ ghosts = [r \in Ranks |-> <<>>]
    /\ agent_cache = [r \in Ranks |-> <<>>]
    /\ sent = [r \in Ranks |-> [tick |-> 0, agents |-> <<>>, moved |-> <<>>]]
    /\ reduced = [r \in Ranks |-> [tick |-> 0, value |-> 0]]
    /\ summary = [r \in Ranks |-> [total_agents |-> 0, total_happy |-> 0,
                                   percent_happy |-> 0]]
    /\ tick_start = [r \in Ranks |-> {}]
    /\ draws = [r \in Ranks |-> 0]
    /\ restored = [r \in Ranks |-> <<>>]
    /\ call = <<>>
    /\ agent_logger = [r \in Ranks |-> <<>>]
    /\ grid_matrix = <<>>
    /\ \E n \in 1 .. MaxAgents, shape \in MoneyShapes :
         \E cells \in [1 .. n -> Range(all_cells(shape[1], shape[2]))] :
            model = MoneyModel_init(n, shape, cells)

\* MoneyModel.step up to shuffle_do: the agents are put in a random order
MoneyStepBegin ==
    /\ model.pc = "ready"
    /\ model.steps < MaxSteps
    /\ model' = [model EXCEPT !.pc = "shuffle_do",
                              !.todo = DOMAIN model.agents]
    /\ UNCHANGED <<agent_logger, grid_matrix, call, restored, draws, params,
                   pc, idx, tick, go, context, ghosts, agent_cache, sent,
                   reduced, summary, tick_start>>

\* MoneyAgent.step of the agent shuffle_do activates next: move to a cell
\* of the neighborhood, then give_money if wealth > 0 and there are cellmates
MoneyAgentStep(i) ==
    /\ model.pc = "shuffle_do"
    /\ i \in model.todo
    /\ \E cell \in neighborhood(model, model.agents[i].cell) :
         LET moved == [model.agents EXCEPT ![i].cell = cell]
         IN  IF can_give(moved[i]) /\ cellmates(moved, i) # {}
             THEN \E other \in cellmates(moved, i) :
                     model' = [model EXCEPT
                        !.todo = @ \ {i},
                        !.agents = [moved EXCEPT
                                      ![other].wealth = @ + 1,
                                      ![i].wealth = @ - 1]]
             ELSE model' = [model EXCEPT !.todo = @ \ {i},
                                         !.agents = moved]
    /\ UNCHANGED <<agent_logger, grid_matrix, call, restored, draws, params,
                   pc, idx, tick, go, context, ghosts, agent_cache, sent,
                   reduced, summary, tick_start>>

\* the rest of MoneyModel.step: the data are collected, and mesa counts
\* the step
MoneyStepEnd ==
    /\ model.pc = "shuffle_do"
    /\ model.todo = {}
    /\ model' = [model EXCEPT !.steps = @ + 1, !.pc = "ready"]
    /\ UNCHANGED <<agent_logger, grid_matrix, call, restored, draws, params,
                   pc, idx, tick, go, context, ghosts, agent_cache, sent,
                   reduced, summary, tick_start>>

MoneyNext ==
    \/ MoneyStepBegin
    \/ \E i \in 1 .. MaxAgents : MoneyAgentStep(i)
    \/ MoneyStepEnd

SpecMoney == MoneyInit /\ [][MoneyNext]_vars

----------------------------------------------------------------------------
(* Notions the properties below are stated with.                           *)

\* every <<rank, position>> of a local (owned) agent
Owned == UNION {{<<r, k>> : k \in DOMAIN context[r]} : r \in Ranks}

OwnedAgent(o) == context[o[1]][o[2]]

\* the local agents of rank r that have stepped in the tick under way
Stepped(r) == IF pc[r] = "steps" THEN 1 .. idx[r] ELSE {}

\* the local agents r's grid showed at the start of its tick
StartLocal(r) == {s \in tick_start[r] : ~s.ghost}

\* the agents of the view at the neighbour coordinates of pt, other than
\* the agent uid; with similar_only, those of type agent_type
ViewCount(view, uid, agent_type, pt, similar_only) ==
    Cardinality({n \in view :
                   /\ n.pt \in Range(Find(pt[1], pt[2]))
                   /\ n.uid # uid
                   /\ (similar_only => n.agent_type = agent_type)})

\* the happy flag the satisfaction rule gives agent a, standing at pt, in view
ViewHappy(view, a, pt) ==
    Satisfied(ViewCount(view, a.uid, a.agent_type, pt, TRUE),
              ViewCount(view, a.uid, a.agent_type, pt, FALSE), a.threshold)

\* the scheduler state of a rank whose runner is at p with go flag g
SchedulerState(p, g) ==
    IF p = "init" THEN 0        \* Initializing
    ELSE IF p = "done" THEN 3   \* Terminated
    ELSE IF ~g THEN 2           \* Terminating
    ELSE 1                      \* Running

\* rank r is inside Model.step
InTick(r) == pc[r] \in {"steps", "sync", "reduce"}

----------------------------------------------------------------------------
\* C1: single occupancy.  In every state, on every rank, no coordinate holds
\* two agents: no two owned agents (of the same or of different ranks) stand
\* on one coordinate, and on no rank's grid does a ghost share a coordinate
\* with a local agent or with another ghost.
C1_SingleOccupancy ==
    /\ \A o1 \in Owned, o2 \in Owned :
          (OwnedAgent(o1).pt = OwnedAgent(o2).pt /\ OwnedAgent(o1).pt # NoPt)
             => o1 = o2
    /\ \A r \in Ranks :
          /\ \A u \in DOMAIN ghosts[r], k \in DOMAIN context[r] :
                ghosts[r][u] # context[r][k].pt
          /\ \A u1 \in DOMAIN ghosts[r], u2 \in DOMAIN ghosts[r] :
                ghosts[r][u1] = ghosts[r][u2] => u1 = u2

\* an agent has relocated in the tick under way on a rank that holds a
\* ghost, while some rank owns two agents
C1_Witness ==
    \E r \in Ranks :
        /\ pc[r] = "steps"
        /\ DOMAIN ghosts[r] # {}
        /\ \E v \in Ranks : Len(context[v]) >= 2
        /\ \E k \in Stepped(r), s \in StartLocal(r) :
              s.uid = context[r][k].uid /\ s.pt # context[r][k].pt

\* C2: synchronous tick.  The happy flag of every agent that has stepped in
\* the tick under way is the one the satisfaction rule gives on the
\* occupancy its rank's grid showed when the tick began (local agents and
\* ghosts), whatever agents stepped before it did in between.
C2_TickStartDecisions ==
    \A r \in Ranks : \A k \in Stepped(r), s \in StartLocal(r) :
        (s.uid = context[r][k].uid /\ ~context[r][k].always_happy)
           => context[r][k].happy = ViewHappy(tick_start[r], context[r][k], s.pt)

\* the occupancy of the whole grid at the start of the tick rank r is in,
\* defined when every other rank is in the same tick's steps or about to
\* enter them
GlobalStartKnown(r) ==
    \A v \in Ranks :
        \/ pc[v] = "steps" /\ tick[v] = tick[r]
        \/ pc[v] \in {"reduce", "loop"} /\ tick[v] = tick[r] - 1

GlobalStart(r) ==
    UNION {IF pc[v] = "steps" THEN StartLocal(v)
           ELSE {n \in Visible(v) : ~n.ghost} : v \in Ranks}

\* C3: worker-count independence.  The results do not depend on the
\* partition: the happy flag an agent gets in a tick in which no agent of
\* its rank has relocated yet is the flag the unpartitioned grid gives it,
\* that is the satisfaction rule on the tick-start occupancy of the whole
\* grid.  (With one rank this is how the flags are computed.)
C3_WorkerCountIndependent ==
    \A r \in Ranks :
        (/\ pc[r] = "steps"
         /\ GlobalStartKnown(r)
         /\ StartLocal(r) = {n \in Visible(r) : ~n.ghost})
        => \A k \in Stepped(r) :
              (~context[r][k].always_happy /\ context[r][k].pt # NoPt)
                 => context[r][k].happy
                      = ViewHappy(GlobalStart(r), context[r][k], context[r][k].pt)

\* C4: unique ownership.  No agent identity is held by two local agents,
\* on one rank or on two, and every ghost a rank holds is the copy of an
\* agent that exactly one other rank owns.
C4_UniqueOwnership ==
    /\ \A o1 \in Owned, o2 \in Owned :
          OwnedAgent(o1).uid = OwnedAgent(o2).uid => o1 = o2
    /\ \A r \in Ranks : \A u \in DOMAIN ghosts[r] :
          /\ Cardinality({o \in Owned : OwnedAgent(o).uid = u}) = 1
          /\ \A o \in Owned : OwnedAgent(o).uid = u => o[1] # r

\* two ranks own agents and one of them holds a ghost after a synchronize
C4_Witness ==
    /\ \A r \in Ranks : Len(context[r]) >= 1
    /\ \E r \in Ranks : pc[r] = "reduce" /\ DOMAIN ghosts[r] # {}
    /\ params.world_size = 2

RECURSIVE OwnedCount(_)
OwnedCount(v) ==
    IF v >= params.world_size THEN 0 ELSE Len(context[v]) + OwnedCount(v + 1)

\* C5: population conservation.  Once every rank has left Model.__init__,
\* the owned agents of all ranks number int(width * height * (1 -
\* empty_ratio)), in every state, so after every tick.
C5_PopulationConserved ==
    (\A r \in Ranks : pc[r] # "init") => OwnedCount(0) = total_agents

\* two ranks share an odd number of agents, and a tick is over
C5_Witness ==
    /\ params.world_size = 2
    /\ total_agents % 2 = 1
    /\ \A r \in Ranks : pc[r] = "loop" /\ tick[r] >= 1

\* C6: bounded termination.  No rank executes a tick beyond stop.at, and
\* the run does not come to rest before every rank has terminated.
C6_BoundedTermination ==
    /\ \A r \in Ranks : tick[r] <= params.stop_at
    /\ (\A r \in Ranks : pc[r] = "done") \/ ENABLED Next

RECURSIVE SummaryUnhappy(_)
\* the unsatisfied agents of the ranks v, v+1, ... by their statistics
SummaryUnhappy(v) ==
    IF v >= params.world_size THEN 0
    ELSE summary[v].total_agents - summary[v].total_happy + SummaryUnhappy(v + 1)

\* C7: tick transition rule.  The statistics a rank holds at the reduction
\* are the counts of its local agents; when the rank ends the tick it leaves
\* Running exactly when the unsatisfied agents of all ranks number 0 or the
\* tick is stop.at; a rank that stays Running goes on to the next tick,
\* one more than the last.
C7_TickTransition ==
    /\ [](\A r \in Ranks : pc[r] = "reduce" =>
            /\ summary[r].total_agents = Len(context[r])
            /\ summary[r].total_happy
                 = Cardinality({k \in DOMAIN context[r] : context[r][k].happy}))
    /\ [][\A r \in Ranks :
            /\ (pc[r] = "reduce" /\ pc'[r] # "reduce") =>
                  /\ pc'[r] = "loop"
                  /\ go[r]
                  /\ ~go'[r] <=> (SummaryUnhappy(0) = 0 \/ tick[r] = params.stop_at)
            /\ (pc[r] = "loop" /\ go[r] /\ pc'[r] # "loop") =>
                  pc'[r] = "steps" /\ tick'[r] = tick[r] + 1]_vars

\* a rank has ended tick 1 with unsatisfied agents left on another rank only
\* and has gone on to tick 2
C7_Witness ==
    \E r \in Ranks :
        /\ tick[r] = 2
        /\ pc[r] = "steps"
        /\ reduced[r].value = 0
        /\ \E v \in Ranks : reduced[v].value > 0 /\ reduced[v].tick = 1

\* C8: scheduler state order.  A rank's scheduler state never goes back and
\* never skips a state (Initializing, Running, Terminating, Terminated), and
\* once the stop is decided the rank executes nothing of a tick: its tick
\* counter, its agents, its ghosts and what it handed to the collectives
\* stay as they are.
C8_StateOrder ==
    [][\A r \in Ranks :
          /\ SchedulerState(pc'[r], go'[r]) >= SchedulerState(pc[r], go[r])
          /\ SchedulerState(pc'[r], go'[r]) <= SchedulerState(pc[r], go[r]) + 1
          /\ ~go[r] =>
                /\ ~go'[r]
                /\ pc'[r] \in {"loop", "done"}
                /\ tick'[r] = tick[r]
                /\ context'[r] = context[r]
                /\ ghosts'[r] = ghosts[r]
                /\ sent'[r] = sent[r]
                /\ reduced'[r] = reduced[r]]_vars

\* every rank is Terminated, stopped by the reduction before stop.at
C8_Witness ==
    /\ \A r \in Ranks : pc[r] = "done" /\ tick[r] < params.stop_at
    /\ total_agents >= 2

\* C9: collective termination.  A rank whose stop is decided is not inside a
\* tick; no rank is in a later tick than a stopped rank; and every rank that
\* has ended the tick in which a rank stopped has stopped too.
C9_CollectiveStop ==
    \A r \in Ranks : ~go[r] =>
        /\ ~InTick(r)
        /\ \A v \in Ranks :
              /\ tick[v] <= tick[r]
              /\ (tick[v] = tick[r] /\ ~InTick(v)) => ~go[v]

\* two ranks that own agents have both stopped in tick 1, before stop.at
C9_Witness ==
    /\ params.world_size = 2
    /\ \A r \in Ranks : ~go[r] /\ tick[r] = 1 /\ Len(context[r]) >= 1
    /\ params.stop_at > 1

\* C10: exchange barrier.  While a rank is in the agent steps of tick t+1,
\* every rank has completed the agent steps and the exchange of tick t: it
\* is at the reduction of tick t or beyond.
C10_ExchangeBarrier ==
    \A r \in Ranks : (pc[r] = "steps" /\ tick[r] >= 2) =>
        \A v \in Ranks :
            \/ tick[v] >= tick[r]
            \/ tick[v] = tick[r] - 1 /\ pc[v] \in {"reduce", "loop"}

\* a rank is in the agent steps of tick 2 while another one, which owns
\* agents, has not yet left the reduction of tick 1
C10_Witness ==
    \E r \in Ranks, v \in Ranks :
        /\ pc[r] = "steps" /\ tick[r] = 2 /\ idx[r] >= 1
        /\ pc[v] = "reduce" /\ tick[v] = 1 /\ Len(context[v]) >= 1

\* the last tick whose synchronize rank r has completed
LastSync(r) ==
    IF pc[r] \in {"steps", "sync"} THEN tick[r] - 1 ELSE tick[r]

\* the copy rank r holds of the ghost u: the cached instance at the ghost's
\* grid location
GhostCopy(r, u) ==
    [uid |-> agent_cache[r][u].uid, agent_type |-> agent_cache[r][u].agent_type,
     threshold |-> agent_cache[r][u].threshold, happy |-> agent_cache[r][u].happy,
     always_happy |-> agent_cache[r][u].always_happy, pt |-> ghosts[r][u]]

\* the agent a record of the exchange describes
RecordAgent(m) ==
    [uid |-> m.data[1], agent_type |-> m.data[2], threshold |-> m.data[3],
     happy |-> m.data[4], always_happy |-> m.data[5], pt |-> m.pt]

\* C11: ghost freshness.  A rank holds no ghost before its first
\* synchronize.  Every ghost is the copy of an owned agent whose rank has
\* handed in the tick of the holder's last completed synchronize or the
\* one after it (the copy is never ahead of its owner); it has the owner's
\* type, threshold and always_happy flag, and as long as the owner's rank
\* has not entered the next tick it equals the owner in every field and in
\* its location.  While the records of that synchronize are still those
\* handed in, the ghosts of a rank are exactly the records received for its
\* buffer: nothing of the ghosts held before is left.
C11_GhostFreshness ==
    \A r \in Ranks :
        /\ LastSync(r) = 0 => DOMAIN ghosts[r] = {}
        /\ \A u \in DOMAIN ghosts[r] : \E o \in Owned :
              /\ OwnedAgent(o).uid = u
              /\ sent[o[1]].tick \in {LastSync(r), LastSync(r) + 1}
              /\ tick[o[1]] >= LastSync(r)
              /\ GhostCopy(r, u).uid = u
              /\ GhostCopy(r, u).agent_type = OwnedAgent(o).agent_type
              /\ GhostCopy(r, u).threshold = OwnedAgent(o).threshold
              /\ GhostCopy(r, u).always_happy = OwnedAgent(o).always_happy
              /\ (tick[o[1]] = LastSync(r)) => GhostCopy(r, u) = OwnedAgent(o)
        /\ (LastSync(r) >= 1 /\ \A v \in Ranks : sent[v].tick = LastSync(r))
              => {GhostCopy(r, u) : u \in DOMAIN ghosts[r]}
                   = {RecordAgent(m) : m \in Range(Received(r, 0, BufferPts(r)))}

\* a rank has completed the synchronize of tick 2 and an agent that was its
\* ghost after tick 1 is no longer one, while another rank holds a ghost
C11_Witness ==
    \E r \in Ranks, v \in Ranks :
        /\ pc[r] = "reduce" /\ tick[r] = 2
        /\ DOMAIN agent_cache[r] \ DOMAIN ghosts[r] # {}
        /\ pc[v] = "reduce" /\ tick[v] = 2
        /\ DOMAIN ghosts[v] # {}

\* the agents other than uid that the grid of rank r shows at the in-bounds
\* neighbour coordinates of pt
NeighborsSeen(r, uid, pt) ==
    {n \in Visible(r) : n.pt \in Range(Find(pt[1], pt[2])) /\ n.uid # uid}

\* C12: satisfaction rule.  When an agent that stands on the grid and is
\* not always_happy takes its step, its happy flag becomes: no neighbours, or
\* similar / total >= threshold, where total counts the other agents, local
\* or ghost, that the rank's grid shows at the in-bounds neighbour
\* coordinates when the agent steps, and similar those of the agent's type.
C12_SatisfactionRule ==
    [][\A r \in Ranks :
          (pc[r] = "steps" /\ idx'[r] = idx[r] + 1) =>
             LET self == context[r][idx[r] + 1]
                 seen == NeighborsSeen(r, self.uid, self.pt)
                 total == Cardinality(seen)
                 similar == Cardinality({n \in seen :
                                           n.agent_type = self.agent_type})
             IN  (self.pt # NoPt /\ ~self.always_happy) =>
                    context'[r][idx[r] + 1].happy
                      = (\/ total = 0
                         \/ similar * self.threshold[2]
                              >= self.threshold[1] * total)]_vars

\* an agent has just stepped between a local neighbour and a ghost, one of
\* them of its type, and is happy at threshold 1/2
C12_Witness ==
    \E r \in Ranks :
        /\ pc[r] = "steps" /\ idx[r] >= 1
        /\ LET self == context[r][idx[r]]
               seen == NeighborsSeen(r, self.uid, self.pt)
           IN  /\ ~self.always_happy /\ self.happy
               /\ self.threshold = <<1, 2>>
               /\ \E n \in seen, m \in seen :
                     /\ n.ghost /\ ~m.ghost
                     /\ n.agent_type # m.agent_type

\* C13: always-satisfied agents.  Once a rank has run the agent steps of a
\* tick, each of its always_happy agents is happy, up to the end of the run;
\* and no step of the program changes the location of an always_happy agent
\* that stands on the grid, or the rank that owns it.
C13_AlwaysHappyFixed ==
    /\ [](\A r \in Ranks :
            (tick[r] >= 1 /\ pc[r] # "steps") =>
               \A k \in DOMAIN context[r] :
                  context[r][k].always_happy => context[r][k].happy)
    /\ [][\A r \in Ranks : \A k \in DOMAIN context[r] :
            (context[r][k].always_happy /\ context[r][k].pt # NoPt) =>
               \E j \in DOMAIN context'[r] :
                  /\ context'[r][j].uid = context[r][k].uid
                  /\ context'[r][j].pt = context[r][k].pt
                  /\ context'[r][j].always_happy]_vars

\* tick 2 is over on a rank for an always_happy agent that the satisfaction
\* rule would make unhappy where it stands, with a vacant point in the tile
C13_Witness ==
    \E r \in Ranks : \E k \in DOMAIN context[r] :
        /\ pc[r] = "reduce" /\ tick[r] = 2
        /\ context[r][k].always_happy /\ context[r][k].happy
        /\ ~ViewHappy(Visible(r), context[r][k], context[r][k].pt)
        /\ \E d \in LocalPts(r) :
              GetAgents(context[r], ghosts[r], agent_cache[r], d) = {}

\* nothing of rank r changes in the step but what is listed in C14
RankFrame(r) ==
    /\ ghosts'[r] = ghosts[r]
    /\ agent_cache'[r] = agent_cache[r]
    /\ tick'[r] = tick[r]
    /\ go'[r] = go[r]
    /\ sent'[r] = sent[r]
    /\ reduced'[r] = reduced[r]
    /\ summary'[r] = summary[r]

\* C14: bounded relocation with soft failure.  A call of move makes at most
\* 100 draws and can always go on or return.  A draw of an occupied point
\* changes nothing but the count; a draw of a vacant point ends the call;
\* after 100 draws of occupied points move returns with the agent where it
\* was, unhappy, nothing else changed, and the agent loop goes on with the
\* next agent.  Every step of an agent the satisfaction rule makes unhappy,
\* in whatever tick, calls move with the count at 0 again.
C14_BoundedSoftMove ==
    /\ [](\A r \in Ranks :
            /\ draws[r] <= 100
            /\ pc[r] = "move" => ENABLED (MoveDraw(r) \/ MoveReturn(r)))
    /\ [][\A r \in Ranks : pc[r] = "move" =>
            \/ /\ draws[r] < 100
               /\ draws'[r] = draws[r] + 1
               /\ pc'[r] = "move" /\ idx'[r] = idx[r]
               /\ context'[r] = context[r] /\ RankFrame(r)
            \/ /\ draws[r] < 100
               /\ draws'[r] = 0
               /\ pc'[r] = "steps" /\ idx'[r] = idx[r] + 1
               /\ context'[r][idx[r] + 1].pt # context[r][idx[r] + 1].pt
               /\ RankFrame(r)
            \/ /\ draws[r] = 100
               /\ draws'[r] = 0
               /\ pc'[r] = "steps" /\ idx'[r] = idx[r] + 1
               /\ context'[r] = context[r] /\ RankFrame(r)
               /\ ~context[r][idx[r] + 1].happy
            \/ /\ draws'[r] = draws[r]
               /\ pc'[r] = "move" /\ idx'[r] = idx[r]
               /\ context'[r] = context[r] /\ RankFrame(r)]_vars
    /\ [][\A r \in Ranks :
            (/\ pc[r] = "steps" /\ idx[r] < Len(context[r])
             /\ (pc'[r] # pc[r] \/ idx'[r] # idx[r])) =>
               LET self == context[r][idx[r] + 1]
                   seen == NeighborsSeen(r, self.uid, self.pt)
                   similar == {n \in seen : n.agent_type = self.agent_type}
               IN  (/\ self.pt # NoPt /\ ~self.always_happy
                    /\ Cardinality(seen) > 0
                    /\ Cardinality(similar) * self.threshold[2]
                         < self.threshold[1] * Cardinality(seen))
                   => /\ pc'[r] = "move" /\ draws'[r] = 0
                      /\ idx'[r] = idx[r]
                      /\ context'[r][idx[r] + 1].pt = self.pt]_vars

\* in tick 2 a call of move has made its 100 draws on a tile without a
\* vacant point: the agent could not move in tick 1 either and tries again
C14_Witness ==
    \E r \in Ranks :
        /\ tick[r] = 2 /\ pc[r] = "move" /\ draws[r] = 100
        /\ \A d \in LocalPts(r) :
              GetAgents(context[r], ghosts[r], agent_cache[r], d) # {}

\* C15: relocation target.  Whenever a step changes the grid location of a
\* local agent that stands on the grid, the new location is a point of the
\* tile of the agent's rank, not of its buffer zone, on which the rank's
\* grid showed no agent, local or ghost, before the step.
C15_RelocationTarget ==
    [][\A r \in Ranks : \A k \in DOMAIN context[r] :
          (/\ context[r][k].pt # NoPt
           /\ k \in DOMAIN context'[r]
           /\ context'[r][k].uid = context[r][k].uid
           /\ context'[r][k].pt # context[r][k].pt)
          => /\ context'[r][k].pt \in LocalPts(r)
             /\ context'[r][k].pt \notin BufferPts(r)
             /\ \A n \in Visible(r) : n.pt # context'[r][k].pt]_vars

\* in tick 2, on a rank that holds a ghost, the agent that has just stepped
\* has relocated within the tile
C15_Witness ==
    \E r \in Ranks :
        /\ tick[r] = 2 /\ pc[r] = "steps" /\ idx[r] >= 1
        /\ DOMAIN ghosts[r] # {}
        /\ \E s \in StartLocal(r) :
              /\ s.uid = context[r][idx[r]].uid
              /\ s.pt # context[r][idx[r]].pt
              /\ context[r][idx[r]].pt \in LocalPts(r)

\* the creation loops are over and the agents are one of each type
TwoGroups ==
    /\ \A r \in Ranks : pc[r] # "init"
    /\ {OwnedAgent(o).agent_type : o \in Owned} = {0, 1}

\* C16 as stated, for the run on one rank (both agents on the one grid): on
\* the 3x3 world with one agent of each type and threshold 1.0, both agents
\* are unhappy after the agent steps of every tick, and the run does not
\* stop before tick stop.at.
C16_TwoAgentsNeverSatisfied ==
    (TwoGroups /\ params.world_size = 1) =>
       \A r \in Ranks :
          /\ (tick[r] >= 1 /\ pc[r] \notin {"steps", "move"}) =>
                \A k \in DOMAIN context[r] : ~context[r][k].happy
          /\ ~go[r] => tick[r] = params.stop_at

\* C16, amended: on the 3x3 world with one agent of each type and threshold
\* 1.0, the step of an agent makes it unhappy, and calls move, exactly when
\* the rank's grid shows the other agent on a neighbouring coordinate;
\* otherwise the agent is happy and stays.  A rank that ends a tick goes on
\* exactly when an agent was left unhappy and the tick is not stop.at.  No
\* tick runs beyond stop.at and the run never comes to rest before every
\* rank has terminated.
C16_TwoAgentsWhileNeighbors ==
    /\ [](/\ \A r \in Ranks : tick[r] <= params.stop_at
          /\ (\A r \in Ranks : pc[r] = "done") \/ ENABLED MoveNext)
    /\ [][\A r \in Ranks :
            (/\ TwoGroups
             /\ pc[r] = "steps" /\ idx[r] < Len(context[r])
             /\ (pc'[r] # pc[r] \/ idx'[r] # idx[r])) =>
               LET self == context[r][idx[r] + 1]
               IN  IF NeighborsSeen(r, self.uid, self.pt) # {}
                   THEN /\ ~context'[r][idx[r] + 1].happy
                        /\ pc'[r] = "move" /\ draws'[r] = 0
                   ELSE /\ context'[r][idx[r] + 1].happy
                        /\ context'[r][idx[r] + 1].pt = self.pt
                        /\ pc'[r] = "steps" /\ idx'[r] = idx[r] + 1]_vars
    /\ [][\A r \in Ranks :
            (TwoGroups /\ pc[r] = "reduce" /\ pc'[r] # "reduce") =>
               go'[r] = (SummaryUnhappy(0) > 0 /\ tick[r] < params.stop_at)]_vars

\* in tick stop.at, after a tick that left an agent unhappy, an agent of
\* the pair is in a call of move that has drawn occupied points
C16_Witness ==
    \E r \in Ranks :
        /\ TwoGroups
        /\ tick[r] = params.stop_at /\ tick[r] >= 2
        /\ pc[r] = "move" /\ draws[r] >= 2

\* C17: serialization round trip.  Every call restore_agent(a.save()), with
\* or without a cached instance for a's uid, returns an agent with a's uid,
\* agent_type, threshold, happy flag and always_happy flag.
C17_RoundTrip ==
    \A q \in Ranks :
        (restored[q] # <<>> /\ restored[q].of # <<>>) =>
           /\ restored[q].agent.uid = restored[q].of.uid
           /\ restored[q].agent.agent_type = restored[q].of.agent_type
           /\ restored[q].agent.threshold = restored[q].of.threshold
           /\ restored[q].agent.happy = restored[q].of.happy
           /\ restored[q].agent.always_happy = restored[q].of.always_happy

\* an always_happy agent that is happy has been restored from its record on
\* a rank that had no instance cached for it
C17_Witness ==
    \E q \in Ranks :
        /\ restored[q] # <<>> /\ restored[q].of # <<>>
        /\ restored[q].of.uid \notin DOMAIN restored[q].before
        /\ restored[q].of.always_happy /\ restored[q].of.happy

\* the uid, agent_type, threshold, happy and always_happy of an agent
Fields(a) == <<a.uid, a.agent_type, a.threshold, a.happy, a.always_happy>>

\* C18: reconstruction reuses the cache.  A call of restore_agent on a full
\* record returns an agent whose fields are those of the record, and this
\* agent is the cache's one entry for the uid.  When the cache held an
\* instance for the uid no instance is constructed: the one returned is the
\* cached one with the record's happy flag; and when the cached instance
\* already had the record's fields (the same record once more) the call
\* leaves the cache as it was.
C18_CacheReuse ==
    \A q \in Ranks :
        (restored[q] # <<>> /\ Len(restored[q].data) = 5) =>
           LET uid == restored[q].data[1]
               before == restored[q].before
           IN  /\ Fields(restored[q].agent) = restored[q].data
               /\ agent_cache[q][uid] = restored[q].agent
               /\ DOMAIN agent_cache[q] = DOMAIN before \cup {uid}
               /\ uid \in DOMAIN before =>
                     /\ ~restored[q].constructed
                     /\ restored[q].agent
                          = [before[uid] EXCEPT !.happy = restored[q].data[4]]
                     /\ Fields(before[uid]) = restored[q].data
                           => agent_cache[q] = before

\* restore_agent has been called on a rank whose cache held an instance
\* with the fields of the record: the same record once more, for an
\* always_happy agent that is happy
C18_Witness ==
    \E q \in Ranks :
        /\ restored[q] # <<>>
        /\ restored[q].data[1] \in DOMAIN restored[q].before
        /\ Fields(restored[q].before[restored[q].data[1]]) = restored[q].data
        /\ restored[q].data[4] /\ restored[q].data[5]

\* the agent with uid u is owned by rank r again, having been restored there
\* from a record sent by another rank
CameBack(r, u) ==
    /\ u[3] = r
    /\ \E k \in DOMAIN context[r] : context[r][k].uid = u
    /\ u \in DOMAIN agent_cache[r]

\* C19: migration round trip.  Sent from rank to rank through save and
\* restore_agent, an agent keeps the uid, agent_type, threshold and
\* always_happy flag it was created with, on whatever rank it is owned: so
\* does the agent that has gone from its rank to another and back.
C19_MigrationRoundTrip ==
    \A r \in Ranks : \A k \in DOMAIN context[r] :
        \E v \in Ranks : \E m \in Range(sent[v].agents) :
            /\ context[r][k].uid = m.data[1]
            /\ context[r][k].uid[3] = v
            /\ context[r][k].agent_type = m.data[2]
            /\ context[r][k].threshold = m.data[3]
            /\ context[r][k].always_happy = m.data[5]

\* an always_happy agent created on rank 0 has gone to rank 1, where its
\* happy flag was rewritten, and is back on rank 0
C19_Witness ==
    \E k \in DOMAIN context[0] :
        /\ CameBack(0, context[0][k].uid)
        /\ context[0][k].uid \in DOMAIN agent_cache[1]
        /\ idx[0] >= 1 /\ idx[1] >= 1
        /\ context[0][k].always_happy
        /\ context[0][k].happy

\* C20: corrupt-record isolation.  After restore_agent has been called on a
\* record that lost fields, the rank goes on (no exception has left
\* synchronize), its cache is as it was before the call, and the record was
\* dropped: no agent of the rank stems from it.
C20_CorruptRecordIsolated ==
    \A q \in Ranks :
        (restored[q] # <<>> /\ Len(restored[q].data) < 5) =>
           /\ pc[q] = "codec"
           /\ agent_cache[q] = restored[q].before
           /\ restored[q].agent = <<>>

\* the call followed last is a call of one of the two offset functions that
\* returned a list
OffsetsReturned ==
    /\ call # <<>>
    /\ call.fn \in {"get_neighborhood_offsets",
                    "neighborhoods.get_neighborhood_offsets"}
    /\ call.error = "none"

\* C21: offsets are symmetric.  Every list of offsets returned, by
\* get_neighborhood_offsets of lecture_03 for any name and by
\* get_neighborhood_offsets of lec04 for any kind and radius, is without
\* (0, 0) and holds (-dx, -dy) whenever it holds (dx, dy).
C21_OffsetsSymmetric ==
    OffsetsReturned =>
       /\ <<0, 0>> \notin Range(call.offsets)
       /\ \A o \in Range(call.offsets) : <<-o[1], -o[2]>> \in Range(call.offsets)

\* the von Neumann offsets of radius 2 have been returned
C21_Witness ==
    /\ OffsetsReturned
    /\ call.fn = "neighborhoods.get_neighborhood_offsets"
    /\ call.kind = "von_neumann" /\ call.radius = 2
    /\ <<0, -2>> \in Range(call.offsets)

\* the offsets at Manhattan distance 1..r, and at Chebyshev distance 1..r
ManhattanBall(r) ==
    {o \in (-r .. r) \X (-r .. r) :
        0 < Abs(o[1]) + Abs(o[2]) /\ Abs(o[1]) + Abs(o[2]) <= r}

ChebyshevBall(r) == ((-r .. r) \X (-r .. r)) \ {<<0, 0>>}

\* the list holds exactly the offsets of the set, each once, n of them
ListsBall(offsets, ball, n) ==
    /\ Range(offsets) = ball
    /\ Len(offsets) = Cardinality(ball)
    /\ Len(offsets) = n

\* the lists of lecture_03 for its six names are the balls of the name's
\* kind and radius, of 4, 8, 12, 24, 48 and 80 offsets
NamedBalls ==
    (OffsetsReturned /\ call.fn = "get_neighborhood_offsets") =>
       /\ call.name = "4" => ListsBall(call.offsets, ManhattanBall(1), 4)
       /\ call.name = "8" => ListsBall(call.offsets, ChebyshevBall(1), 8)
       /\ call.name = "12" => ListsBall(call.offsets, ManhattanBall(2), 12)
       /\ call.name = "24" => ListsBall(call.offsets, ChebyshevBall(2), 24)
       /\ call.name = "48" => ListsBall(call.offsets, ChebyshevBall(3), 48)
       /\ call.name = "80" => ListsBall(call.offsets, ChebyshevBall(4), 80)

\* the call followed last is a call of lec04's get_neighborhood_offsets with
\* a radius of at least 1 that returned a list
TypedReturned ==
    /\ OffsetsReturned
    /\ call.fn = "neighborhoods.get_neighborhood_offsets"
    /\ call.radius >= 1

\* C22 as stated: the list of von Neumann radius r is the Manhattan ball
\* without the origin, of 2r(r+1) offsets; the list of Moore or extended
\* radius r is the Chebyshev ball without the origin, of (2r+1)^2 - 1
\* offsets; no offset is listed twice; the six names of lecture_03 give 4,
\* 8, 12, 24, 48 and 80 offsets.
C22_OffsetsAreBalls ==
    /\ NamedBalls
    /\ TypedReturned =>
          IF call.kind = "von_neumann"
          THEN ListsBall(call.offsets, ManhattanBall(call.radius),
                         2 * call.radius * (call.radius + 1))
          ELSE ListsBall(call.offsets, ChebyshevBall(call.radius),
                         (2 * call.radius + 1) * (2 * call.radius + 1) - 1)

\* C22, amended: as stated, but for the extended kind with radius 1 the
\* list is the one of radius 2 (24 offsets).
C22_OffsetsAreBallsFromTwo ==
    /\ NamedBalls
    /\ TypedReturned =>
          LET r == IF call.kind = "extended" /\ call.radius = 1 THEN 2
                   ELSE call.radius
          IN  IF call.kind = "von_neumann"
              THEN ListsBall(call.offsets, ManhattanBall(r), 2 * r * (r + 1))
              ELSE ListsBall(call.offsets, ChebyshevBall(r),
                             (2 * r + 1) * (2 * r + 1) - 1)

\* the name "80" has given its list of 80 offsets
C22_Witness ==
    /\ OffsetsReturned
    /\ call.fn = "get_neighborhood_offsets" /\ call.name = "80"
    /\ Len(call.offsets) = 80

\* the call followed last is a call of an offset function with a name or
\* kind it does not know
UnknownKindGiven ==
    /\ call # <<>>
    /\ \/ /\ call.fn = "get_neighborhood_offsets"
          /\ call.name \notin {"4", "8", "12", "24", "48", "80"}
       \/ /\ call.fn = "neighborhoods.get_neighborhood_offsets"
          /\ call.kind \notin {"von_neumann", "moore", "extended"}

C24_RadiusRejected ==
    (/\ call # <<>>
     /\ call.fn = "neighborhoods.get_neighborhood_offsets"
     /\ call.kind \in {"von_neumann", "moore", "extended"}
     /\ call.radius <= 0) =>
       (call.error # "none" /\ call.offsets = <<>>)

\* the ball of the neighbourhood a run is configured with
ConfiguredBall ==
    CASE params.neighborhood = "4"  -> ManhattanBall(1)
      [] params.neighborhood = "12" -> ManhattanBall(2)
      [] params.neighborhood = "24" -> ChebyshevBall(2)
      [] params.neighborhood = "48" -> ChebyshevBall(3)
      [] params.neighborhood = "80" -> ChebyshevBall(4)
      [] OTHER -> ChebyshevBall(1)

FindReturned == call # <<>> /\ call.fn = "find"

\* C25: sticky border.  What find returns for (x, y) is exactly the
\* coordinates (x + dx, y + dy), over the configured offsets, that lie in
\* [0, width) x [0, height), each once: nothing outside the grid, nothing
\* wrapped around, and never (x, y) itself.
C25_StickyBorder ==
    FindReturned =>
       /\ Range(call.found) =
             {<<call.x + o[1], call.y + o[2]>> : o \in ConfiguredBall}
               \cap ((0 .. params.world_width - 1)
                       \X (0 .. params.world_height - 1))
       /\ Len(call.found) = Cardinality(Range(call.found))
       /\ <<call.x, call.y>> \notin Range(call.found)

\* find was called at a corner of a 3 x 3 grid with the Moore offsets: five
\* of the eight translates are outside and three are returned
C25_Witness ==
    /\ FindReturned
    /\ params.world_width = 3 /\ params.world_height = 3
    /\ params.neighborhood = "8"
    /\ call.x = 0 /\ call.y = 0
    /\ Len(call.found) = 3

\* the agents created by rank k, by their uids
CreatedBy(k) ==
    {context[o[1]][o[2]].uid : o \in {p \in Owned : OwnedAgent(p).uid[3] = k}}

\* C26: initial distribution.  A rank k that has left Model.__init__ has
\* created floor(T / W) + 1 agents if k < T mod W and floor(T / W)
\* otherwise; once all ranks have, the counts of two ranks differ by at most
\* one, a lower rank has no fewer than a higher one, and they sum to T.
C26_InitialDistribution ==
    LET T == (params.world_width * params.world_height
                * (4 - params.empty_ratio)) \div 4
        W == params.world_size
        n(k) == Cardinality(CreatedBy(k))
    IN  /\ \A k \in Ranks : pc[k] # "init" =>
              n(k) = (T \div W) + (IF k < T % W THEN 1 ELSE 0)
        /\ (\A k \in Ranks : pc[k] # "init") =>
              /\ \A j, k \in Ranks : j < k => n(j) - n(k) \in {0, 1}
              /\ Cardinality(UNION {CreatedBy(k) : k \in Ranks}) = T

\* two ranks have shared three agents, two for rank 0 and one for rank 1
C26_Witness ==
    /\ params.world_size = 2
    /\ \A k \in Ranks : pc[k] # "init"
    /\ Cardinality(CreatedBy(0)) = 2 /\ Cardinality(CreatedBy(1)) = 1

\* calculate_morans_i has been called on the grid
MoranCalled ==
    /\ call # <<>>
    /\ call.fn \in {"final_stats.calculate_morans_i",
                    "analysis_utils.calculate_morans_i"}

\* the non-empty cells of the grid, and those holding +1 and -1
NonEmpty ==
    {p \in (DOMAIN grid_matrix) \X (DOMAIN grid_matrix[1]) :
        grid_matrix[p[1]][p[2]] # NaN}

PlusCells == {p \in NonEmpty : grid_matrix[p[1]][p[2]] = <<1>>}

MinusCells == {p \in NonEmpty : grid_matrix[p[1]][p[2]] = <<-1>>}

\* the ordered pairs of distinct non-empty cells, the second one of the 8
\* Moore neighbours of the first, with the first in A and the second in B
MoorePairs(A, B) ==
    {pq \in A \X B : /\ pq[1] # pq[2]
                     /\ Abs(pq[1][1] - pq[2][1]) <= 1
                     /\ Abs(pq[1][2] - pq[2][2]) <= 1}

\* C27: metric undefined cases.  calculate_morans_i returns nan exactly
\* when the grid has fewer than 2 non-empty cells, or all non-empty cells
\* hold the same value (sum of squared deviations 0), or no two non-empty
\* cells are Moore neighbours (W = 0); in every other case it returns a
\* number.
C27_UndefinedCases ==
    MoranCalled =>
       (call.result.nan <=>
           \/ Cardinality(NonEmpty) < 2
           \/ PlusCells = {} \/ MinusCells = {}
           \/ MoorePairs(NonEmpty, NonEmpty) = {})

\* two cells of different values that are not neighbours: nan through W = 0
C27_Witness ==
    /\ MoranCalled
    /\ call.result.nan
    /\ PlusCells # {} /\ MinusCells # {}
    /\ MoorePairs(NonEmpty, NonEmpty) = {}

\* C28: metric value.  Where it is defined the result is (N / W) * (sum of
\* z_i * z_j over the ordered pairs of non-empty Moore neighbours) / (sum of
\* z_i^2), z_i the value minus the mean of the non-empty cells and W the
\* number of those pairs, whatever neighbourhood the run is configured
\* with.  The sums are taken by value: z is N - S on the +1 cells and
\* -N - S on the -1 cells, in units of 1 / N.
C28_MetricValue ==
    (MoranCalled /\ ~call.result.nan) =>
       LET N   == Cardinality(NonEmpty)
           S   == Cardinality(PlusCells) - Cardinality(MinusCells)
           zp  == N - S
           zm  == (0 - N) - S
           W   == Cardinality(MoorePairs(NonEmpty, NonEmpty))
           num == (Cardinality(MoorePairs(PlusCells, PlusCells)) * zp * zp)
                  + (Cardinality(MoorePairs(PlusCells, MinusCells)) * zp * zm)
                  + (Cardinality(MoorePairs(MinusCells, PlusCells)) * zm * zp)
                  + (Cardinality(MoorePairs(MinusCells, MinusCells)) * zm * zm)
           den == (Cardinality(PlusCells) * zp * zp)
                  + (Cardinality(MinusCells) * zm * zm)
       IN  /\ call.result.value[2] # 0
           /\ call.result.value[1] * (W * den)
                = (N * num) * call.result.value[2]

\* the nested loops gave a number other than 0 for a grid of a run
\* configured with the 4-neighbourhood, on which two cells are diagonal
\* neighbours
C28_Witness ==
    /\ MoranCalled
    /\ call.fn = "final_stats.calculate_morans_i"
    /\ params.neighborhood = "4"
    /\ ~call.result.nan
    /\ call.result.value[1] # 0
    /\ \E pq \in MoorePairs(NonEmpty, NonEmpty) :
          pq[1][1] # pq[2][1] /\ pq[1][2] # pq[2][2]

C30_WithinUnitInterval ==
    (MoranCalled /\ ~call.result.nan) =>
       /\ call.result.value[2] > 0
       /\ Abs(call.result.value[1]) <= call.result.value[2]

\* the largest number of non-empty Moore neighbours of a non-empty cell
MaxDegree ==
    CHOOSE d \in 0 .. 8 :
       /\ \A p \in NonEmpty : Cardinality(MoorePairs({p}, NonEmpty)) <= d
       /\ \E p \in NonEmpty : Cardinality(MoorePairs({p}, NonEmpty)) = d

\* C30, amended: a value that is defined is at most N * d / W in absolute
\* value, N the number of non-empty cells, W the number of ordered pairs of
\* non-empty Moore neighbours and d the largest number of non-empty
\* neighbours of a cell; so it lies in [-1, 1] where all non-empty cells
\* have equally many non-empty neighbours, and can lie outside otherwise.
C30_WithinDegreeBound ==
    (MoranCalled /\ ~call.result.nan) =>
       /\ call.result.value[2] > 0
       /\ Abs(call.result.value[1])
             * Cardinality(MoorePairs(NonEmpty, NonEmpty))
            <= call.result.value[2] * Cardinality(NonEmpty) * MaxDegree

\* a value above 1 was returned
C30_Witness ==
    /\ MoranCalled
    /\ ~call.result.nan
    /\ call.result.value[1] > call.result.value[2]

\* Model.at_end has computed Moran's I
MetricWritten == call # <<>> /\ call.fn = "at_end"

\* C31: fully gathered snapshot.  The grid at_end hands to
\* calculate_morans_i holds every agent owned by every rank: at the
\* agent's location the grid has 1 for type 1 and -1 for type 0.
C31_FullyGatheredSnapshot ==
    MetricWritten =>
       \A o \in Owned :
          grid_matrix[OwnedAgent(o).pt[2] + 1][OwnedAgent(o).pt[1] + 1]
            = (IF OwnedAgent(o).agent_type = 1 THEN <<1>> ELSE <<-1>>)

\* C32: the metric is computed at most once in a run, by rank 0 alone, in
\* the end event that follows the last tick of rank 0 (its go flag is off
\* and it leaves the loop of execute); no other rank and no tick computes
\* it.
C32_MetricOnceByRankZero ==
    /\ [](MetricWritten => (call.rank = 0 /\ pc[0] = "done"))
    /\ [][(call' # call \/ grid_matrix' # grid_matrix) =>
            /\ call = <<>> /\ grid_matrix = <<>>
            /\ pc[0] = "loop" /\ ~go[0] /\ pc'[0] = "done"
            /\ call'.fn = "at_end" /\ call'.rank = 0
            /\ \A r \in Ranks : pc'[r] \notin {"steps", "sync"}]_vars

\* both ranks of a run have ended and rank 0 has computed the metric
C32_Witness ==
    /\ params.world_size = 2
    /\ \A r \in Ranks : pc[r] = "done"
    /\ MetricWritten

\* every <<rank, position>> of a row logged and not yet written
RowSlots == UNION {{<<r, i>> : i \in DOMAIN agent_logger[r]} : r \in Ranks}

LoggedRow(s) == agent_logger[s[1]][s[2]]

\* C33: per-tick log completeness.  When every rank has logged its rows of
\* a tick (all are between the statistics loop and the allreduce return),
\* the rows of all ranks are as many as the agents of the simulation, and
\* every agent has exactly one row, which carries the tick, the agent's
\* type, and its location and happy flag as they are after synchronize.
C33_LogCompleteness ==
    (\A r \in Ranks : pc[r] = "reduce") =>
       /\ Cardinality(RowSlots)
            = (params.world_width * params.world_height
                 * (4 - params.empty_ratio)) \div 4
       /\ \A o \in Owned :
             LET a    == OwnedAgent(o)
                 mine == {s \in RowSlots :
                            /\ LoggedRow(s).agent_id = a.uid[1]
                            /\ LoggedRow(s).rank = a.uid[3]}
             IN  /\ Cardinality(mine) = 1
                 /\ \A s \in mine :
                       /\ LoggedRow(s).tick = tick[o[1]]
                       /\ LoggedRow(s).type = a.agent_type
                       /\ LoggedRow(s).x = a.pt[1] /\ LoggedRow(s).y = a.pt[2]
                       /\ LoggedRow(s).happy = 1 <=> a.happy
                       /\ LoggedRow(s).happy \in {0, 1}

\* both ranks of a run have logged their rows of tick 2, one of them a row
\* of an agent that is not happy
C33_Witness ==
    /\ params.world_size = 2
    /\ \A r \in Ranks : pc[r] = "reduce" /\ tick[r] = 2
    /\ \A r \in Ranks : agent_logger[r] # <<>>
    /\ \E s \in RowSlots : LoggedRow(s).happy = 0

\* C36: no agent changes its owning rank.  The agents of the context of a
\* rank that has left Model.__init__ are, at every point of every tick, the
\* agents the rank created: uids (i, 0, rank) for i below its share of the
\* agents.
C36_OwnerNeverChanges ==
    \A r \in Ranks :
       pc[r] # "init" =>
          /\ {context[r][k].uid : k \in DOMAIN context[r]} =
               {<<i, 0, r>> :
                  i \in 0 .. ((total_agents \div params.world_size)
                               + (IF r < total_agents % params.world_size
                                  THEN 1 ELSE 0) - 1)}
          /\ \A j, k \in DOMAIN context[r] :
                context[r][j].uid = context[r][k].uid => j = k

\* two ranks have run two ticks and an agent that relocated or tried to is
\* still with its rank
C36_Witness ==
    /\ params.world_size = 2
    /\ \A r \in Ranks : pc[r] \in {"loop", "done"} /\ tick[r] >= 2
    /\ \E o \in Owned : ~OwnedAgent(o).happy

\* C37: initialization completes on every rank.  A rank that still has an
\* agent to place has a vacant cell in its tile, so that its placement loop
\* ends once that cell is drawn and the rank goes on to the runner.
C37_InitializationCompletes ==
    \A r \in Ranks :
       (pc[r] = "init" /\ idx[r] < my_agent_count(r)) =>
          \E pt \in LocalPts(r) :
             GetAgents(context[r], ghosts[r], agent_cache[r], pt) = {}

\* C38: an agent that attempts relocation is counted unsatisfied.  An agent
\* is flagged not happy while its call of move is under way and when the
\* call returns, whether it was moved or the range of draws was exhausted;
\* the flag of an agent that has stepped is not written again before the
\* statistics of the tick; the statistics count the agents flagged not
\* happy; and a rank whose allreduce returns before stop.at stops the run
\* only when that count is 0 on every rank, so when no agent attempted
\* relocation in the tick.
C38_AttemptCountsUnsatisfied ==
    /\ [](\A r \in Ranks : pc[r] = "move" => ~context[r][idx[r] + 1].happy)
    /\ [][\A r \in Ranks :
            /\ (pc[r] = "move" /\ pc'[r] # "move") =>
                  /\ pc'[r] = "steps"
                  /\ ~context'[r][idx[r] + 1].happy
            /\ (pc[r] \in {"steps", "move", "sync"}
                  /\ pc'[r] \in {"steps", "move", "sync", "reduce"}) =>
                  \A k \in 1 .. idx[r] :
                     /\ k \in DOMAIN context'[r]
                     /\ context'[r][k].uid = context[r][k].uid
                     /\ context'[r][k].happy = context[r][k].happy
            /\ (pc[r] = "sync" /\ pc'[r] = "reduce") =>
                  reduced'[r].value =
                     Cardinality({k \in DOMAIN context'[r] :
                                     ~context'[r][k].happy})
            /\ (pc[r] = "reduce" /\ pc'[r] = "loop" /\ ~go'[r]
                  /\ tick[r] < params.stop_at) =>
                  /\ \A v \in Ranks : reduced[v].value = 0
                  /\ \A k \in DOMAIN context[r] : context[r][k].happy]_vars

\* the range of draws of a call of move is exhausted: the agent stays where
\* it is, flagged not happy
C38_Witness ==
    \E r \in Ranks :
       /\ pc[r] = "move"
       /\ draws[r] = Attempts
       /\ ~context[r][idx[r] + 1].happy

\* what the threshold utility is to return: 1 when there are neighbours and
\* similar / total is at least the threshold n / d, and 0 otherwise
ThresholdValue(threshold, similar, total) ==
    IF total > 0 /\ similar * threshold[2] >= threshold[1] * total
    THEN 1 ELSE 0

\* C34: threshold utility.  For 0 <= similar <= total and a threshold in
\* [0, 1], ThresholdUtility(threshold).calculate(similar, total) raises
\* nothing and is 1.0 when total > 0 and similar / total >= threshold and
\* 0.0 otherwise, and threshold_utility(similar, total, {threshold}) is the
\* same value.
C34_ThresholdUtility ==
    /\ (call # <<>> /\ call.fn = "ThresholdUtility.calculate"
          /\ 0 <= call.threshold[1] /\ call.threshold[1] <= call.threshold[2]) =>
          /\ call.error = "none"
          /\ call.result = ThresholdValue(call.threshold, call.similar_count,
                                          call.total_count)
          /\ call.result = threshold_utility(call.similar_count,
                              call.total_count, [threshold |-> call.threshold])
    /\ (call # <<>> /\ call.fn = "threshold_utility"
          /\ "threshold" \in DOMAIN call.params
          /\ 0 <= call.params.threshold[1]
          /\ call.params.threshold[1] <= call.params.threshold[2]) =>
          /\ call.result = ThresholdValue(call.params.threshold,
                              call.similar_count, call.total_count)
          /\ call.result = ThresholdUtility_calculate(call.params.threshold,
                              call.similar_count, call.total_count)

\* the test of test_features.py: ThresholdUtility(0.5).calculate(4, 8) is 1.0
C34_Witness ==
    /\ call # <<>> /\ call.fn = "ThresholdUtility.calculate"
    /\ call.threshold = <<1, 2>>
    /\ call.similar_count = 4 /\ call.total_count = 8
    /\ call.result = 1

\* get_neighborhood_kernel has returned a kernel for a radius of 1 or more
KernelReturned ==
    /\ call # <<>> /\ call.fn = "get_neighborhood_kernel"
    /\ call.kind \in {"von_neumann", "moore", "extended"}
    /\ call.radius >= 1

\* the kernel returned is the square of side 2 * r + 1 of 0s and 1s with a
\* 1 at [i][j] exactly where (i - r, j - r) is an offset of the kind for
\* the radius of the call
KernelMatches(r) ==
    LET offs == Range(offsets_by_type(call.kind, call.radius).offsets)
    IN  /\ Len(call.kernel) = (2 * r) + 1
        /\ \A i \in DOMAIN call.kernel :
              /\ Len(call.kernel[i]) = (2 * r) + 1
              /\ \A j \in DOMAIN call.kernel[i] :
                    /\ call.kernel[i][j] \in {0, 1}
                    /\ call.kernel[i][j] = 1
                         <=> <<(i - 1) - r, (j - 1) - r>> \in offs
        /\ np_sum(Flat(call.kernel))
             = Len(offsets_by_type(call.kind, call.radius).offsets)

\* C35 as stated: for every kind and radius r >= 1 the kernel is the
\* (2r+1) x (2r+1) matrix of the offsets of the same kind and radius.
C35_KernelIsOffsets == KernelReturned => KernelMatches(call.radius)

\* C35, amended: as stated, except that for the extended kind with radius 1
\* the kernel is the 5 x 5 matrix of the offsets of the same call, which
\* are those of radius 2.
C35_KernelIsOffsetsFromTwo ==
    KernelReturned =>
       KernelMatches(IF call.kind = "extended" /\ call.radius = 1
                     THEN 2 ELSE call.radius)

\* the Moore kernel of radius 1 was returned: its sum is 8
C35_Witness ==
    /\ KernelReturned
    /\ call.kind = "moore" /\ call.radius = 1
    /\ np_sum(Flat(call.kernel)) = 8

\* the agents of the Schelling model whose happy flag is True
HappyAgents == {i \in DOMAIN model.agents : model.agents[i].happy}

\* the Schelling model is constructed and no step is under way
SchellingAtRest == model.pc = "ready"

\* an agent changes cell only with its happy flag False, and the flags are
\* those of the end of the previous step until the step under way ends
OnlyUnhappyMove ==
    \A i \in DOMAIN model.agents :
       /\ model'.agents[i].cell # model.agents[i].cell
             => ~model.agents[i].happy
       /\ model'.agents[i].happy # model.agents[i].happy
             => model'.pc = "ready"

\* C39 as stated: after construction and after every step model.happy is
\* the number of agents whose happy flag is True and running is False
\* exactly when every agent is happy; during a step only agents whose flag
\* was False at the end of the previous step change cell
C39_HappyCountRunningMovers ==
    /\ [](SchellingAtRest =>
             /\ model.happy = Cardinality(HappyAgents)
             /\ (model.running = FALSE) <=> (HappyAgents = DOMAIN model.agents))
    /\ [][OnlyUnhappyMove]_vars

\* C39: after construction and after every step model.happy is the number
\* of agents whose happy flag is True; after every step running is False
\* exactly when every agent is happy; during a step only agents whose flag
\* was False at the end of the previous step change cell
C39_HappyCountRunningAfterStep ==
    /\ [](SchellingAtRest =>
             /\ model.happy = Cardinality(HappyAgents)
             /\ model.steps >= 1 =>
                  ((model.running = FALSE) <=> (HappyAgents = DOMAIN model.agents)))
    /\ [][OnlyUnhappyMove]_vars

\* a step has ended with some agents happy and others not
C39_Witness ==
    /\ SchellingAtRest
    /\ model.steps >= 1
    /\ model.running
    /\ 0 < model.happy /\ model.happy < Len(model.agents)

\* the wealth of the agents of the money model, summed
TotalWealth == np_sum([i \in DOMAIN model.agents |-> model.agents[i].wealth])

\* an agent that loses wealth had some, loses one unit, and shares its cell
GivesOneWhenItCan ==
    \A i \in DOMAIN model.agents :
       model'.agents[i].wealth < model.agents[i].wealth
          => /\ model.agents[i].wealth > 0
             /\ model'.agents[i].wealth = model.agents[i].wealth - 1
             /\ cellmates(model'.agents, i) # {}

\* C40: in the money model the sum of all agents' wealth is always the
\* number of agents n and no wealth is ever negative: an agent gives one
\* unit only when its wealth is > 0 and another agent shares its cell
C40_WealthConserved ==
    /\ [](/\ TotalWealth = model.num_agents
          /\ \A i \in DOMAIN model.agents : model.agents[i].wealth >= 0)
    /\ [][GivesOneWhenItCan]_vars

\* after a step an agent has nothing left and another holds more than one
C40_Witness ==
    /\ model.pc = "ready"
    /\ model.steps >= 1
    /\ \E i, j \in DOMAIN model.agents :
          model.agents[i].wealth = 0 /\ model.agents[j].wealth >= 2

====
